---- MODULE Spec2Model ----
(***************************************************************************)
(* Turn-processing engine of ai_saga: the submit_action route, the Redis   *)
(* lease lock with heartbeat of CacheServiceAdapter.lock, and              *)
(* ProcessActionUseCase.execute, over one game session.                    *)
(*                                                                         *)
(* Two specifications share the lock's acquire and release:                *)
(*   LockSpec  the lock alone, with time: the guarded block is any code,   *)
(*             and time is counted in ticks of 5/3 s, the largest unit     *)
(*             that divides the lock TTL (20 s), the heartbeat interval    *)
(*             (20/3 s) and the blocking timeout of acquire (5 s);         *)
(*   Spec      the route and the use case under the lock, where every step *)
(*             may take any time: a waiter may give up whenever the key is *)
(*             held, and a key expires only once its holder's heartbeat    *)
(*             no longer renews it.                                        *)
(***************************************************************************)
EXTENDS Integers, FiniteSets, Sequences, TLC

(* ------------------------------ bounds -------------------------------- *)
NumReqs == 2
NumTokens == 2
MaxExtends == 3
MaxTurns == 2
MaxHp == 1

(* ------------------------- program constants -------------------------- *)
TtlTicks == 12
BlockingTicks == 3
ExtendDivisor == 3

Reqs == 1..NumReqs
Tokens == 1..NumTokens
Owner == "owner"
Intruder == "intruder"
Users == {Owner, Intruder}

(* The interval multiplied where the code divides. *)
ExtendIntervalTicks_Times == TtlTicks * ExtendDivisor

ExtendIntervalTicks == TtlTicks \div ExtendDivisor
ExtendAmount == TtlTicks

NoReq == 0
NoSess == [status |-> "none"]
NoResp == [kind |-> "none"]
NoRecord == [type |-> "none"]
NoChar == -1
NoOp == [name |-> "none", amount |-> 0]
EmptyTxn == [sess |-> NoSess, char |-> NoChar, msgs |-> {}]

HpChanges == -1..1

(* Context messages: NumMsgs stored messages, message i created at time  *)
(* CreatedAt(i): odd ids share the later time, even ids the earlier one,  *)
(* so that ids are not in time order and some times are equal.            *)
NumMsgs == 3
MaxContext == 3
CreatedAt(i) == IF i % 2 = 1 THEN 2 ELSE 1

(* What a narration can name in its state changes: at most MaxChange     *)
(* entries per list, and a location that may be None or empty.            *)
MaxChange == 2
ItemNames == {"sword", "key"}
NpcNames == {"elf"}
DiscoveryNames == {"map"}
NoLocation == "<None>"
LocationChanges == {NoLocation, "", "cave", "tower"}
EmptyDict == [k \in {} |-> <<>>]
NoChanges == [items_gained |-> <<>>, items_lost |-> <<>>, location |-> NoLocation,
              npcs_met |-> <<>>, discoveries |-> <<>>]

(* Dice checks: character levels 1..MaxLevel; 21 is the first level with  *)
(* modifier +7.                                                           *)
MaxLevel == 21
Difficulties == {"easy", "normal", "hard", "nightmare"}
CheckTypes == {"combat", "skill", "social", "exploration"}
NoDamage == -1
NoCheck == [level |-> 0]

(* Turn counts of the games that are scored at their ending. *)
MaxTurnCount == 30

(* Texts handed to generate_embedding: empty, blank, and three actions.  *)
Texts == {"", " ", "go east", "attack", "rest"}
NoEntry == [absent |-> TRUE]
NoEmbedding == [vector_of |-> "none"]

(* Inputs of the stats and account operations. *)
MaxStartLevel == 2
MaxExperience == 600
MaxGameExperience == 1200
MaxCrossed == 3
HpAmounts == {0, 30, 200}
ExpAmounts == {0, 50, 90, 100, 200, 300, 500, 600}
FoldHpChanges == {-200, -30, 0, 30}
FoldExpAmounts == {0, 100}
GameExpAmounts == {0, 150, 300, 900}
EndingTypes == {"victory", "defeat", "neutral"}

(* current_location values: where the scenario starts and one other place. *)
StartLocation == "start"
Locations == {StartLocation, "cave"}

(* Concurrent StartGame calls made for one character. *)
NumStarts == 3
Starters == 1..NumStarts

(* The sessions and messages an illustration request can name: session 1  *)
(* is the owner's and session 2 somebody else's; each has one AI message  *)
(* and one player message. NoId is an id no row has.                      *)
NumSessions == 2
NoId == 0
SessionIds == 1..NumSessions
Messages == 1..(2 * NumSessions)
session_user(sid) == IF sid = 1 THEN Owner ELSE Intruder
message_session(m) == (m + 1) \div 2
is_ai_response(m) == m % 2 = 1
NoUrl == "<None>"
Urls == {"url-1", "url-2"}
NoResult == [status |-> "none"]

VARIABLES
    pc, tok, usr,
    lockOwner, lockTtl,
    hasToken, waited, hb, hbClk, extends,
    sess, txn, delta, resp, outcome, cached, narrated, loaded,
    cache, cacheWriter, db,
    stats, account, op,
    recent, rag, merged,
    gameState, changes,
    dice,
    embCache, embPc, embText, embLookup, embCalls, embStore, embVal,
    start, illus

(* One generate_embedding call and the cache entries it shares.           *)
embVars == <<embCache, embPc, embText, embLookup, embCalls, embStore, embVal>>

(* The use cases around the turn engine. *)
auxVars == <<embVars, start, illus>>

(* Arguments and results of the stateless services: merge_contexts,       *)
(* apply_state_changes and perform_check.                                 *)
serviceVars == <<recent, rag, merged, gameState, changes, dice, auxVars>>

(* What the domain's pure functions are applied to: a character's stats,  *)
(* a user's account progression, the services' arguments and results, and *)
(* the last call made on any of them.                                     *)
domainVars == <<stats, account, op, serviceVars>>

vars == <<pc, tok, usr, lockOwner, lockTtl, hasToken, waited, hb, hbClk,
          extends, sess, txn, delta, resp, outcome, cached, narrated, loaded,
          cache, cacheWriter, db, domainVars>>

(* Everything the turn engine and the lock work on. *)
engineVars == <<pc, tok, usr, lockOwner, lockTtl, hasToken, waited, hb, hbClk,
                extends, sess, txn, delta, resp, outcome, cached, narrated,
                loaded, cache, cacheWriter, db>>

lockVars == <<lockOwner, lockTtl, hasToken, waited, hb, hbClk, extends>>
reqVars == <<sess, txn, delta, resp, outcome, cached, narrated, loaded>>

(* Steps of execute() that run inside the `async with lock` block. *)
Section == {"idem", "load", "user_msg", "narrate", "fold", "ai_msg", "save", "cache"}

InSection(r) == pc[r] \in Section

(* ------------------------- session entity ----------------------------- *)
is_active(s) == s.status = "active"

(* is_final_turn with > for >=. *)
is_final_turn_Strict(s) == s.turn > s.max

is_final_turn(s) == s.turn >= s.max

(* advance_turn counting a turn twice. *)
advance_turn_ByTwo(s) == [s EXCEPT !.turn = s.turn + 2]

advance_turn(s) == [s EXCEPT !.turn = s.turn + 1]

complete(s, e) == [s EXCEPT !.status = "completed", !.ending = e]

(* update_location(new_location): no condition on the status. *)
update_location(s, l) == [s EXCEPT !.loc = l]

remaining_turns(s) == IF s.max - s.turn > 0 THEN s.max - s.turn ELSE 0

(* _validate_session without its status checks. *)
validate_session_NoCheck(s, user) == "ok"

(* _validate_session: "ok" or the ValueError it raises; user_id is unused. *)
validate_session(s, user) ==
    IF s.status = "completed" THEN "already_completed"
    ELSE IF ~is_active(s) THEN "not_active"
    ELSE "ok"

(* ------------------------- character stats ---------------------------- *)
take_damage(hp, amount) == IF hp - amount > 0 THEN hp - amount ELSE 0

heal(hp, amount) == IF hp + amount < MaxHp THEN hp + amount ELSE MaxHp

(* CharacterStats as a record, with the methods of the value object.     *)
(* UserProgressionService.calculate_starting_hp(level).                   *)
calculate_starting_hp(level) == 100 + (level - 1) * 10

(* CreateCharacterUseCase: hp = max_hp = starting hp, level = the user's  *)
(* game level, both experience counters 0.                                *)
new_character(level) ==
    [hp |-> calculate_starting_hp(level), max_hp |-> calculate_starting_hp(level),
     level |-> level, experience |-> 0, current_experience |-> 0]

stats_take_damage(st, amount) ==
    [st EXCEPT !.hp = IF st.hp - amount > 0 THEN st.hp - amount ELSE 0]

(* heal() without the max_hp ceiling. *)
stats_heal_Uncapped(st, amount) == [st EXCEPT !.hp = st.hp + amount]

stats_heal(st, amount) ==
    [st EXCEPT !.hp = IF st.hp + amount < st.max_hp THEN st.hp + amount
                      ELSE st.max_hp]

(* A threshold that does not grow with the level. *)
experience_for_next_level_Flat(st) == 100

experience_for_next_level(st) == st.level * 100

(* _level_up_once() with an HP increase that ignores the level. *)
level_up_once_FlatHp(st) ==
    [st EXCEPT !.level = st.level + 1,
               !.max_hp = st.max_hp + 10,
               !.hp = st.max_hp + 10,
               !.current_experience = st.current_experience
                                        - experience_for_next_level(st)]

(* _level_up_once(): the threshold comes off current_experience, level    *)
(* +1, max_hp + 10 * level, full heal.                                    *)
level_up_once(st) ==
    [st EXCEPT !.level = st.level + 1,
               !.max_hp = st.max_hp + 10 * st.level,
               !.hp = st.max_hp + 10 * st.level,
               !.current_experience = st.current_experience
                                        - experience_for_next_level(st)]

(* The while loop of gain_experience. *)
RECURSIVE auto_level_up(_)
auto_level_up(st) ==
    IF st.current_experience >= experience_for_next_level(st)
    THEN auto_level_up(level_up_once(st))
    ELSE st

(* gain_experience() with an `if` in place of the `while`. *)
gain_experience_SingleLevel(st, amount) ==
    LET s1 == [st EXCEPT !.experience = st.experience + amount,
                         !.current_experience = st.current_experience + amount]
    IN IF s1.current_experience >= experience_for_next_level(s1)
       THEN level_up_once(s1) ELSE s1

gain_experience(st, amount) ==
    auto_level_up([st EXCEPT !.experience = st.experience + amount,
                             !.current_experience = st.current_experience + amount])

(* The character part of _handle_normal_turn: heal or take_damage by      *)
(* hp_change, then gain_experience when experience_gained > 0.            *)
fold_character(st, hp_change, experience_gained) ==
    LET s1 == IF hp_change > 0 THEN stats_heal(st, hp_change)
              ELSE IF hp_change < 0 THEN stats_take_damage(st, -hp_change)
              ELSE st
    IN IF experience_gained > 0 THEN gain_experience(s1, experience_gained)
       ELSE s1

(* --------------------------- context merge ---------------------------- *)
Msg(i) == [id |-> i, created_at |-> CreatedAt(i)]

(* Lists of at most MaxContext stored messages, none of them twice. *)
ContextLists ==
    {q \in UNION {[1..n -> {Msg(i) : i \in 1..NumMsgs}] : n \in 0..MaxContext} :
        \A i, j \in 1..Len(q) : i # j => q[i].id # q[j].id}

(* The deduplication loop without its seen_ids test. *)
unique_messages_KeepAll(all_messages) == all_messages

(* The deduplication loop: the first occurrence of every id, in order. *)
RECURSIVE unique_messages(_)
unique_messages(all_messages) ==
    IF all_messages = <<>> THEN <<>>
    ELSE LET n == Len(all_messages)
             kept == unique_messages(SubSeq(all_messages, 1, n - 1))
         IN IF \E k \in 1..Len(kept) : kept[k].id = all_messages[n].id
            THEN kept
            ELSE Append(kept, all_messages[n])

(* sorted(..., key=created_at): stable, so a message goes behind every    *)
(* earlier one that is not newer than it.                                 *)
RECURSIVE sorted_by_created_at(_)
sorted_by_created_at(msgs) ==
    IF msgs = <<>> THEN <<>>
    ELSE LET head == sorted_by_created_at(SubSeq(msgs, 1, Len(msgs) - 1))
             m == msgs[Len(msgs)]
             older == SelectSeq(head, LAMBDA x : x.created_at <= m.created_at)
             newer == SelectSeq(head, LAMBDA x : x.created_at > m.created_at)
         IN older \o <<m>> \o newer

merge_contexts(recent_messages, rag_messages) ==
    sorted_by_created_at(unique_messages(recent_messages \o rag_messages))

(* ---------------------------- game state ------------------------------ *)
(* Sequences over S of length at most n, repetitions included. *)
SeqsUpTo(S, n) == UNION {[1..k -> S] : k \in 0..n}

(* The state_changes a narration can carry. *)
AllChanges ==
    [items_gained : SeqsUpTo(ItemNames, MaxChange),
     items_lost : SeqsUpTo(ItemNames, MaxChange),
     location : LocationChanges,
     npcs_met : SeqsUpTo(NpcNames, MaxChange),
     discoveries : SeqsUpTo(DiscoveryNames, MaxChange)]

(* Lists over S in which nothing occurs twice. *)
DistinctLists(S) ==
    {q \in SeqsUpTo(S, Cardinality(S)) :
        \A i, j \in 1..Len(q) : i # j => q[i] # q[j]}

(* The game_state dicts a session can hold: {} at the start of the game,  *)
(* then what to_dict writes, every list free of repetitions.              *)
GameStates ==
    {EmptyDict} \cup
    [items : DistinctLists(ItemNames),
     visited_locations : DistinctLists(LocationChanges \ {NoLocation, ""}),
     met_npcs : DistinctLists(NpcNames),
     discoveries : DistinctLists(DiscoveryNames)]

InList(x, list) == \E k \in 1..Len(list) : list[k] = x

(* GameState.from_dict: a missing key reads as the empty list. *)
from_dict(data) ==
    [items |-> IF "items" \in DOMAIN data THEN data.items ELSE <<>>,
     visited_locations |-> IF "visited_locations" \in DOMAIN data
                           THEN data.visited_locations ELSE <<>>,
     met_npcs |-> IF "met_npcs" \in DOMAIN data THEN data.met_npcs ELSE <<>>,
     discoveries |-> IF "discoveries" \in DOMAIN data
                     THEN data.discoveries ELSE <<>>]

(* GameState.to_dict: always the four keys. *)
to_dict(state) ==
    [items |-> state.items, visited_locations |-> state.visited_locations,
     met_npcs |-> state.met_npcs, discoveries |-> state.discoveries]

(* `for e in entries: list.append(e)`, without the membership test. *)
RECURSIVE append_new_Always(_, _)
append_new_Always(list, entries) ==
    IF entries = <<>> THEN list
    ELSE append_new_Always(Append(list, Head(entries)), Tail(entries))

(* `for e in entries: if e not in list: list.append(e)`. *)
RECURSIVE append_new(_, _)
append_new(list, entries) ==
    IF entries = <<>> THEN list
    ELSE append_new(IF InList(Head(entries), list) THEN list
                    ELSE Append(list, Head(entries)),
                    Tail(entries))

(* list.remove(x): the first occurrence goes. *)
remove(list, x) ==
    LET k == CHOOSE i \in 1..Len(list) :
                 list[i] = x /\ \A j \in 1..(i - 1) : list[j] # x
    IN SubSeq(list, 1, k - 1) \o SubSeq(list, k + 1, Len(list))

(* `for e in entries: if e in list: list.remove(e)`. *)
RECURSIVE remove_present(_, _)
remove_present(list, entries) ==
    IF entries = <<>> THEN list
    ELSE remove_present(IF InList(Head(entries), list)
                        THEN remove(list, Head(entries)) ELSE list,
                        Tail(entries))

(* `if changes.location`: None and the empty string are both false. *)
truthy(location) == location # NoLocation /\ location # ""

apply_state_changes(current_state_dict, chg) ==
    LET current == from_dict(current_state_dict)
        new_items == remove_present(append_new(current.items, chg.items_gained),
                                    chg.items_lost)
        new_locations ==
            IF truthy(chg.location)
            THEN append_new(current.visited_locations, <<chg.location>>)
            ELSE current.visited_locations
        new_npcs == append_new(current.met_npcs, chg.npcs_met)
        new_discoveries == append_new(current.discoveries, chg.discoveries)
    IN to_dict([items |-> new_items, visited_locations |-> new_locations,
                met_npcs |-> new_npcs, discoveries |-> new_discoveries])

(* ------------------------------- dice --------------------------------- *)
calculate_modifier(level) == (level - 1) \div 4 + 2

get_dc(difficulty) ==
    CASE difficulty = "easy" -> 8
      [] difficulty = "normal" -> 12
      [] difficulty = "hard" -> 15
      [] difficulty = "nightmare" -> 18
      [] OTHER -> 12

(* get_damage_dice(level): <<count, sides>>. *)
get_damage_dice(level) ==
    IF level <= 2 THEN <<1, 4>>
    ELSE IF level <= 4 THEN <<1, 6>>
    ELSE IF level <= 6 THEN <<1, 8>>
    ELSE IF level <= 8 THEN <<1, 10>>
    ELSE <<1, 12>>

(* What roll_damage(level, is_critical) can return: the sums of `count`   *)
(* dice of `sides` faces, the count doubled on a critical.                *)
(* roll_damage() that ignores is_critical. *)
roll_damage_NotDoubled(level, is_critical) ==
    get_damage_dice(level)[1] .. (get_damage_dice(level)[1] * get_damage_dice(level)[2])

roll_damage(level, is_critical) ==
    LET count == IF is_critical THEN 2 * get_damage_dice(level)[1]
                 ELSE get_damage_dice(level)[1]
    IN count .. (count * get_damage_dice(level)[2])

roll_fumble_damage == 1..4

total(roll, modifier) == roll + modifier

(* is_success with a strict comparison. *)
is_success_Strict(roll, modifier, dc) == total(roll, modifier) > dc

is_success(roll, modifier, dc) == total(roll, modifier) >= dc

(* DiceResult with its computed fields. *)
DiceResult(roll, modifier, dc, check_type, damage) ==
    [roll |-> roll, modifier |-> modifier, dc |-> dc, check_type |-> check_type,
     damage |-> damage,
     total |-> total(roll, modifier),
     is_success |-> is_success(roll, modifier, dc),
     is_critical |-> (roll = 20),
     is_fumble |-> (roll = 1)]

(* --------------------------- embedding cache ------------------------- *)
(* json.dumps of an embedding, and json.loads of what dumps wrote. *)
json_dumps(embedding) == [json |-> embedding]
json_loads(data) == data.json

(* The embedder's vector for a text. *)
Embedding(text) == [vector_of |-> text]

(* `not text or not text.strip()`: the empty and the all-blank text. *)
is_blank(text) == text \in {"", " "}

(* No generate_embedding call is running and nothing is cached. *)
EmbIdleCall ==
    /\ embPc = "idle" /\ embText = "" /\ embLookup = "none"
    /\ embCalls = 0 /\ embStore = "none" /\ embVal = NoEmbedding

(* No StartGame call has been made for the character, which has no       *)
(* session yet.                                                           *)
StartIdle ==
    start = [pc |-> [c \in Starters |-> "idle"], flushed |-> {},
             active |-> {}]

(* No illustration has been asked for and no message has an image.        *)
IllusIdle ==
    illus = [pc |-> "idle", user |-> Owner, session_id |-> NoId,
             message_id |-> NoId, result |-> NoResult,
             image_url |-> [m \in Messages |-> NoUrl]]

AuxIdle ==
    /\ embCache = [t \in Texts |-> NoEntry]
    /\ EmbIdleCall
    /\ StartIdle
    /\ IllusIdle

(* No service has been called. *)
ServicesIdle ==
    /\ recent = <<>> /\ rag = <<>> /\ merged = <<>>
    /\ gameState = EmptyDict /\ changes = NoChanges
    /\ dice = NoCheck
    /\ AuxIdle

(* ---------------------- account progression --------------------------- *)
game_experience_for_next_level(u) == u.game_level * 300

(* _game_level_up_once() that also takes the threshold off the total. *)
game_level_up_once_CutsTotal(u) ==
    [u EXCEPT !.game_level = u.game_level + 1,
              !.game_experience = u.game_experience
                                    - game_experience_for_next_level(u),
              !.game_current_experience = u.game_current_experience
                                    - game_experience_for_next_level(u)]

game_level_up_once(u) ==
    [u EXCEPT !.game_level = u.game_level + 1,
              !.game_current_experience = u.game_current_experience
                                    - game_experience_for_next_level(u)]

RECURSIVE auto_game_level_up(_)
auto_game_level_up(u) ==
    IF u.game_current_experience >= game_experience_for_next_level(u)
    THEN auto_game_level_up(game_level_up_once(u))
    ELSE u

gain_game_experience(u, amount) ==
    auto_game_level_up(
        [u EXCEPT !.game_experience = u.game_experience + amount,
                  !.game_current_experience = u.game_current_experience + amount])

(* calculate_game_xp() with one base for every ending type. *)
calculate_game_xp_FlatBase(ending_type, turn_count, difficulty) ==
    LET per_turn == CASE ending_type = "victory" -> 10
                      [] ending_type = "defeat" -> 5
                      [] ending_type = "neutral" -> 7
        xp == 100 + turn_count * per_turn
    IN IF difficulty \in {"hard", "nightmare"} THEN (xp * 3) \div 2 ELSE xp

(* calculate_game_xp(): int(xp * 1.5) is xp * 3 div 2 for xp >= 0. *)
calculate_game_xp(ending_type, turn_count, difficulty) ==
    LET base == CASE ending_type = "victory" -> 200
                  [] ending_type = "defeat" -> 50
                  [] ending_type = "neutral" -> 100
        per_turn == CASE ending_type = "victory" -> 10
                      [] ending_type = "defeat" -> 5
                      [] ending_type = "neutral" -> 7
        xp == base + turn_count * per_turn
    IN IF difficulty \in {"hard", "nightmare"} THEN (xp * 3) \div 2 ELSE xp

(* Total experience of an account that has just reached `level`. *)
RECURSIVE game_experience_at(_)
game_experience_at(level) ==
    IF level <= 1 THEN 0 ELSE game_experience_at(level - 1) + (level - 1) * 300

(* A user who has just reached game level `level`, and the character      *)
(* they then create.                                                      *)
NewPlayer(level) ==
    /\ account = [game_level |-> level,
                  game_experience |-> game_experience_at(level),
                  game_current_experience |-> 0]
    /\ stats = new_character(level)
    /\ op = NoOp

(* --------------------- idempotency record format ---------------------- *)
(* _cache_response: {"type": ..., "data": response.model_dump()}           *)
cache_response(rsp) ==
    [type |-> IF rsp.kind = "ending" THEN "ending" ELSE "action",
     data |-> IF rsp.kind = "ending"
              THEN [total_turns |-> rsp.total_turns, ending_type |-> rsp.ending_type]
              ELSE [msg |-> rsp.msg, turn_count |-> rsp.turn_count,
                    is_ending |-> rsp.is_ending]]

(* execute, step 1: rebuild the response model the record's type names.   *)
cached_response(rec) ==
    IF rec.type = "ending"
    THEN [kind |-> "ending", total_turns |-> rec.data.total_turns,
          ending_type |-> rec.data.ending_type]
    ELSE [kind |-> "action", msg |-> rec.data.msg,
          turn_count |-> rec.data.turn_count, is_ending |-> rec.data.is_ending]

(* ------------------------------ Init ---------------------------------- *)
(* No request is in flight; nothing is locked or cached. *)
InitRequests ==
    /\ pc = [r \in Reqs |-> "idle"]
    /\ tok = [r \in Reqs |-> 1]
    /\ usr = [r \in Reqs |-> Owner]
    /\ lockOwner = [k \in Tokens |-> NoReq]
    /\ lockTtl = [k \in Tokens |-> 0]
    /\ hasToken = [r \in Reqs |-> FALSE]
    /\ waited = [r \in Reqs |-> 0]
    /\ hb = [r \in Reqs |-> "none"]
    /\ hbClk = [r \in Reqs |-> 0]
    /\ extends = [r \in Reqs |-> 0]
    /\ sess = [r \in Reqs |-> NoSess]
    /\ txn = [r \in Reqs |-> EmptyTxn]
    /\ delta = [r \in Reqs |-> 0]
    /\ resp = [r \in Reqs |-> NoResp]
    /\ outcome = [r \in Reqs |-> "none"]
    /\ cached = [r \in Reqs |-> FALSE]
    /\ narrated = [r \in Reqs |-> 0]
    /\ loaded = [r \in Reqs |-> "none"]
    /\ cache = [k \in Tokens |-> NoRecord]
    /\ cacheWriter = [k \in Tokens |-> NoReq]

(* The store after StartGame: turn_count 0, the character at full HP.     *)
InitStore(st, mx) ==
    db = [sess |-> [status |-> st, turn |-> 0, max |-> mx, ending |-> "none",
                    loc |-> StartLocation],
          hp |-> MaxHp, msgs |-> {}, sessBy |-> NoReq, hpBy |-> NoReq]

Init ==
    /\ InitRequests
    /\ \E st \in {"active", "paused"}, mx \in 1..MaxTurns : InitStore(st, mx)
    /\ NewPlayer(1)
    /\ ServicesIdle

LockInit ==
    /\ InitRequests
    /\ InitStore("active", 1)
    /\ NewPlayer(1)
    /\ ServicesIdle

(* Any two context lists, not merged yet. *)
MergeInit ==
    /\ InitRequests
    /\ InitStore("active", 1)
    /\ NewPlayer(1)
    /\ recent \in ContextLists
    /\ rag \in ContextLists
    /\ merged = <<>>
    /\ gameState = EmptyDict /\ changes = NoChanges
    /\ dice = NoCheck
    /\ AuxIdle

(* Any game state a session can hold and any state changes, not applied  *)
(* yet.                                                                   *)
GameStateInit ==
    /\ InitRequests
    /\ InitStore("active", 1)
    /\ NewPlayer(1)
    /\ recent = <<>> /\ rag = <<>> /\ merged = <<>>
    /\ gameState \in GameStates
    /\ changes \in AllChanges
    /\ dice = NoCheck
    /\ AuxIdle

(* Players of the first few game levels, each with a new character. *)
StatsInit ==
    /\ InitRequests
    /\ InitStore("active", 1)
    /\ \E level \in 1..MaxStartLevel : NewPlayer(level)
    /\ ServicesIdle

(* ------------------------ route: submit_action ------------------------ *)
(* A client posts an action; the route builds lock_key from the session   *)
(* id and the Idempotency-Key header and calls cache_service.lock.        *)
Submit(r) ==
    /\ pc[r] = "idle"
    /\ \E t \in Tokens, u \in Users :
         /\ tok' = [tok EXCEPT ![r] = t]
         /\ usr' = [usr EXCEPT ![r] = u]
    /\ pc' = [pc EXCEPT ![r] = "acquire"]
    /\ UNCHANGED domainVars
    /\ UNCHANGED <<lockVars, reqVars, cache, cacheWriter, db>>

(* --------------------- CacheServiceAdapter.lock ----------------------- *)
Key(r) == tok[r]

(* lock_obj.acquire() returned True: SET lock_key NX PX ttl succeeded.    *)
(* The heartbeat task is created right after.                             *)
AcquireOk(r) ==
    /\ pc[r] = "acquire"
    /\ lockOwner[Key(r)] = NoReq
    /\ lockOwner' = [lockOwner EXCEPT ![Key(r)] = r]
    /\ lockTtl' = [lockTtl EXCEPT ![Key(r)] = TtlTicks]
    /\ hasToken' = [hasToken EXCEPT ![r] = TRUE]
    /\ hb' = [hb EXCEPT ![r] = "running"]
    /\ hbClk' = [hbClk EXCEPT ![r] = 0]
    /\ waited' = [waited EXCEPT ![r] = 0]
    /\ pc' = [pc EXCEPT ![r] = "idem"]
    /\ UNCHANGED domainVars
    /\ UNCHANGED <<tok, usr, extends, reqVars, cache, cacheWriter, db>>

(* lock_obj.acquire() gave up after blocking_timeout and returned False.  *)
(* lock() does not look at the result: it starts the heartbeat task and   *)
(* yields to the caller's block all the same.                             *)
AcquireTimeout(r) ==
    /\ pc[r] = "acquire"
    /\ lockOwner[Key(r)] # NoReq
    /\ waited[r] = BlockingTicks
    /\ hb' = [hb EXCEPT ![r] = "running"]
    /\ hbClk' = [hbClk EXCEPT ![r] = 0]
    /\ waited' = [waited EXCEPT ![r] = 0]
    /\ pc' = [pc EXCEPT ![r] = "idem"]
    /\ UNCHANGED domainVars
    /\ UNCHANGED <<tok, usr, lockOwner, lockTtl, hasToken, extends,
                   reqVars, cache, cacheWriter, db>>

(* _extend_lock_periodically: after sleeping `interval`, lock.extend adds *)
(* extend_amount to the key's remaining TTL when the key still holds this *)
(* acquisition's token.                                                   *)
ExtendOk(r) ==
    /\ hb[r] = "running"
    /\ hbClk[r] = ExtendIntervalTicks
    /\ extends[r] < MaxExtends
    /\ hasToken[r] /\ lockOwner[Key(r)] = r
    /\ lockTtl' = [lockTtl EXCEPT ![Key(r)] = @ + ExtendAmount]
    /\ extends' = [extends EXCEPT ![r] = @ + 1]
    /\ hbClk' = [hbClk EXCEPT ![r] = 0]
    /\ UNCHANGED domainVars
    /\ UNCHANGED <<pc, tok, usr, lockOwner, hasToken, waited, hb, reqVars,
                   cache, cacheWriter, db>>

(* lock.extend raised: the lock object holds no token (acquire returned   *)
(* False), the key is no longer owned, or Redis failed. The loop breaks.  *)
ExtendFail(r) ==
    /\ hb[r] = "running"
    /\ hbClk[r] = ExtendIntervalTicks
    /\ hb' = [hb EXCEPT ![r] = "stopped"]
    /\ hbClk' = [hbClk EXCEPT ![r] = 0]
    /\ UNCHANGED domainVars
    /\ UNCHANGED <<pc, tok, usr, lockOwner, lockTtl, hasToken, waited,
                   extends, reqVars, cache, cacheWriter, db>>

(* The finally clause without extend_task.cancel(). *)
CancelHeartbeat_NoCancel(r) ==
    /\ pc[r] = "exit"
    /\ pc' = [pc EXCEPT ![r] = "release"]
    /\ UNCHANGED domainVars
    /\ UNCHANGED <<tok, usr, lockVars, reqVars, cache, cacheWriter, db>>

(* finally: extend_task.cancel(); await extend_task                       *)
CancelHeartbeat(r) ==
    /\ pc[r] = "exit"
    /\ hb' = [hb EXCEPT ![r] = "none"]
    /\ hbClk' = [hbClk EXCEPT ![r] = 0]
    /\ extends' = [extends EXCEPT ![r] = 0]
    /\ pc' = [pc EXCEPT ![r] = "release"]
    /\ UNCHANGED domainVars
    /\ UNCHANGED <<tok, usr, lockOwner, lockTtl, hasToken, waited, reqVars,
                   cache, cacheWriter, db>>

(* A release that deletes the key without comparing its value with this  *)
(* acquisition's token.                                                   *)
Release_Unchecked(r) ==
    /\ pc[r] = "release"
    /\ IF hasToken[r]
       THEN /\ lockOwner' = [lockOwner EXCEPT ![Key(r)] = NoReq]
            /\ lockTtl' = [lockTtl EXCEPT ![Key(r)] = 0]
       ELSE UNCHANGED <<lockOwner, lockTtl>>
    /\ hasToken' = [hasToken EXCEPT ![r] = FALSE]
    /\ pc' = [pc EXCEPT ![r] = "teardown"]
    /\ UNCHANGED domainVars
    /\ UNCHANGED <<tok, usr, waited, hb, hbClk, extends, reqVars, cache,
                   cacheWriter, db>>

(* lock_obj.release() after the block instead of in its finally clause:   *)
(* an exception of the block skips it.                                    *)
Release_OnSuccessOnly(r) ==
    /\ pc[r] = "release"
    /\ IF outcome[r] = "ok" /\ hasToken[r] /\ lockOwner[Key(r)] = r
       THEN /\ lockOwner' = [lockOwner EXCEPT ![Key(r)] = NoReq]
            /\ lockTtl' = [lockTtl EXCEPT ![Key(r)] = 0]
       ELSE UNCHANGED <<lockOwner, lockTtl>>
    /\ hasToken' = [hasToken EXCEPT ![r] = hasToken[r] /\ outcome[r] # "ok"]
    /\ pc' = [pc EXCEPT ![r] = "teardown"]
    /\ UNCHANGED domainVars
    /\ UNCHANGED <<tok, usr, waited, hb, hbClk, extends, reqVars, cache,
                   cacheWriter, db>>

(* lock_obj.release() without the except clause: its LockError reaches    *)
(* the caller.                                                            *)
Release_Raises(r) ==
    /\ pc[r] = "release"
    /\ IF hasToken[r] /\ lockOwner[Key(r)] = r
       THEN /\ lockOwner' = [lockOwner EXCEPT ![Key(r)] = NoReq]
            /\ lockTtl' = [lockTtl EXCEPT ![Key(r)] = 0]
            /\ UNCHANGED outcome
       ELSE /\ outcome' = [outcome EXCEPT ![r] = "error"]
            /\ UNCHANGED <<lockOwner, lockTtl>>
    /\ hasToken' = [hasToken EXCEPT ![r] = FALSE]
    /\ pc' = [pc EXCEPT ![r] = "teardown"]
    /\ UNCHANGED domainVars
    /\ UNCHANGED <<tok, usr, waited, hb, hbClk, extends, sess, txn, delta,
                   resp, cached, narrated, loaded, cache, cacheWriter, db>>

(* finally: lock_obj.release(); it deletes the key only when the key      *)
(* still holds this acquisition's token, and its errors are logged.       *)
Release(r) ==
    /\ pc[r] = "release"
    /\ IF hasToken[r] /\ lockOwner[Key(r)] = r
       THEN /\ lockOwner' = [lockOwner EXCEPT ![Key(r)] = NoReq]
            /\ lockTtl' = [lockTtl EXCEPT ![Key(r)] = 0]
       ELSE UNCHANGED <<lockOwner, lockTtl>>
    /\ hasToken' = [hasToken EXCEPT ![r] = FALSE]
    /\ pc' = [pc EXCEPT ![r] = "teardown"]
    /\ UNCHANGED domainVars
    /\ UNCHANGED <<tok, usr, waited, hb, hbClk, extends, reqVars, cache,
                   cacheWriter, db>>

(* Something must happen before the clock may advance: a poll of acquire  *)
(* (every 0.1 s) finds the key free, the blocking timeout is reached, or  *)
(* a heartbeat is due.                                                    *)
Urgent(r) ==
    \/ pc[r] = "acquire" /\ lockOwner[Key(r)] = NoReq
    \/ pc[r] = "acquire" /\ waited[r] = BlockingTicks
    \/ hb[r] = "running" /\ hbClk[r] = ExtendIntervalTicks

(* One tick passes: waiters wait, heartbeats sleep, Redis ages the keys   *)
(* and drops a key whose TTL has run out.                                 *)
Tick ==
    /\ \A r \in Reqs : ~Urgent(r)
    /\ \E r \in Reqs : pc[r] \in Section \cup {"acquire", "exit", "release"}
    /\ waited' = [r \in Reqs |-> IF pc[r] = "acquire" THEN waited[r] + 1 ELSE waited[r]]
    /\ hbClk' = [r \in Reqs |-> IF hb[r] = "running" THEN hbClk[r] + 1 ELSE hbClk[r]]
    /\ lockTtl' = [k \in Tokens |-> IF lockTtl[k] > 0 THEN lockTtl[k] - 1 ELSE 0]
    /\ lockOwner' = [k \in Tokens |-> IF lockTtl[k] = 1 THEN NoReq ELSE lockOwner[k]]
    /\ UNCHANGED domainVars
    /\ UNCHANGED <<pc, tok, usr, hasToken, hb, extends, reqVars, cache,
                   cacheWriter, db>>

(* The guarded block of `async with lock(...)`, as any code: it ends,     *)
(* normally or by an exception, and the finally clause runs.              *)
BlockEnds(r) ==
    /\ pc[r] = "idem"
    /\ pc' = [pc EXCEPT ![r] = "exit"]
    /\ UNCHANGED domainVars
    /\ UNCHANGED <<tok, usr, lockVars, reqVars, cache, cacheWriter, db>>

(* The caller is through with the lock and may ask for it again.          *)
Return(r) ==
    /\ pc[r] = "teardown"
    /\ pc' = [pc EXCEPT ![r] = "idle"]
    /\ tok' = [tok EXCEPT ![r] = 1]
    /\ usr' = [usr EXCEPT ![r] = Owner]
    /\ UNCHANGED domainVars
    /\ UNCHANGED <<lockVars, reqVars, cache, cacheWriter, db>>

(* ---------------- the lock where steps take any time ------------------ *)
(* acquire() polled for blocking_timeout while the key stayed held, and   *)
(* returned False; lock() goes on as in AcquireTimeout.                   *)
AcquireGivesUp(r) ==
    /\ pc[r] = "acquire"
    /\ lockOwner[Key(r)] # NoReq
    /\ hb' = [hb EXCEPT ![r] = "running"]
    /\ pc' = [pc EXCEPT ![r] = "idem"]
    /\ UNCHANGED domainVars
    /\ UNCHANGED <<tok, usr, lockOwner, lockTtl, hasToken, waited, hbClk,
                   extends, reqVars, cache, cacheWriter, db>>

(* The failure of lock.extend raised into the caller's block. *)
HeartbeatStops_Raises(r) ==
    /\ hb[r] = "running"
    /\ pc[r] \in Section
    /\ hb' = [hb EXCEPT ![r] = "stopped"]
    /\ outcome' = [outcome EXCEPT ![r] = "error"]
    /\ pc' = [pc EXCEPT ![r] = "exit"]
    /\ UNCHANGED domainVars
    /\ UNCHANGED <<tok, usr, lockOwner, lockTtl, hasToken, waited, hbClk,
                   extends, sess, txn, delta, resp, cached, narrated, loaded,
                   cache, cacheWriter, db>>

(* A wake-up of the heartbeat finds lock.extend raising, as in ExtendFail. *)
HeartbeatStops(r) ==
    /\ hb[r] = "running"
    /\ pc[r] \in Section
    /\ hb' = [hb EXCEPT ![r] = "stopped"]
    /\ UNCHANGED domainVars
    /\ UNCHANGED <<pc, tok, usr, lockOwner, lockTtl, hasToken, waited, hbClk,
                   extends, reqVars, cache, cacheWriter, db>>

(* Redis drops a key whose TTL ran out: nothing renews it any more.       *)
LeaseExpires(k) ==
    /\ lockOwner[k] # NoReq
    /\ hb[lockOwner[k]] # "running"
    /\ lockOwner' = [lockOwner EXCEPT ![k] = NoReq]
    /\ lockTtl' = [lockTtl EXCEPT ![k] = 0]
    /\ UNCHANGED domainVars
    /\ UNCHANGED <<pc, tok, usr, hasToken, waited, hb, hbClk, extends,
                   reqVars, cache, cacheWriter, db>>

(* ------------------- ProcessActionUseCase.execute --------------------- *)
UserMsg(r) == [by |-> r, role |-> "user"]
AiMsg(r) == [by |-> r, role |-> "assistant"]

(* Step 1 without its return statements: the cached response is rebuilt  *)
(* and execute goes on to step 2.                                         *)
IdemCheck_NoReturn(r) ==
    /\ pc[r] = "idem"
    /\ IF cache[Key(r)] # NoRecord
       THEN /\ resp' = [resp EXCEPT ![r] = cached_response(cache[Key(r)])]
            /\ cached' = [cached EXCEPT ![r] = TRUE]
       ELSE UNCHANGED <<resp, cached>>
    /\ pc' = [pc EXCEPT ![r] = "load"]
    /\ UNCHANGED domainVars
    /\ UNCHANGED <<tok, usr, lockVars, sess, txn, delta, narrated, loaded,
                   outcome, cache, cacheWriter, db>>

(* 1. Idempotency check: cache.get; a record short-circuits the turn.     *)
IdemCheck(r) ==
    /\ pc[r] = "idem"
    /\ IF cache[Key(r)] # NoRecord
       THEN /\ resp' = [resp EXCEPT ![r] = cached_response(cache[Key(r)])]
            /\ cached' = [cached EXCEPT ![r] = TRUE]
            /\ outcome' = [outcome EXCEPT ![r] = "ok"]
            /\ pc' = [pc EXCEPT ![r] = "exit"]
       ELSE /\ pc' = [pc EXCEPT ![r] = "load"]
            /\ UNCHANGED <<resp, cached, outcome>>
    /\ UNCHANGED domainVars
    /\ UNCHANGED <<tok, usr, lockVars, sess, txn, delta, narrated, loaded,
                   cache, cacheWriter, db>>

(* 2-5. Load the session, _validate_session, advance_turn (in memory),    *)
(* embed the action text.                                                 *)
LoadValidate(r) ==
    /\ pc[r] = "load"
    /\ loaded' = [loaded EXCEPT ![r] = db.sess.status]
    /\ LET v == validate_session(db.sess, usr[r]) IN
       IF v # "ok"
       THEN /\ outcome' = [outcome EXCEPT ![r] = v]
            /\ pc' = [pc EXCEPT ![r] = "exit"]
            /\ UNCHANGED sess
       ELSE IF ~is_active(db.sess)
       THEN /\ outcome' = [outcome EXCEPT ![r] = "cannot_advance"]
            /\ pc' = [pc EXCEPT ![r] = "exit"]
            /\ UNCHANGED sess
       ELSE /\ sess' = [sess EXCEPT ![r] = advance_turn(db.sess)]
            /\ pc' = [pc EXCEPT ![r] = "user_msg"]
            /\ UNCHANGED outcome
    /\ UNCHANGED domainVars
    /\ UNCHANGED <<tok, usr, lockVars, txn, delta, resp, cached, narrated,
                   cache, cacheWriter, db>>

(* create() committing its INSERT where the code only flushes it. *)
CreateUserMessage_Commits(r) ==
    /\ pc[r] = "user_msg"
    /\ db' = [db EXCEPT !.msgs = @ \cup {[by |-> r, role |-> "user"]}]
    /\ pc' = [pc EXCEPT ![r] = "narrate"]
    /\ UNCHANGED domainVars
    /\ UNCHANGED <<tok, usr, lockVars, reqVars, cache, cacheWriter>>

(* 6. message_repo.create(user_message): INSERT, flushed in the request's *)
(* transaction.                                                           *)
CreateUserMessage(r) ==
    /\ pc[r] = "user_msg"
    /\ txn' = [txn EXCEPT ![r].msgs = @ \cup {UserMsg(r)}]
    /\ pc' = [pc EXCEPT ![r] = "narrate"]
    /\ UNCHANGED domainVars
    /\ UNCHANGED <<tok, usr, lockVars, sess, delta, resp, outcome, cached,
                   narrated, loaded, cache, cacheWriter, db>>

(* 7-8. Build the context, then call the narrative generator: the ending  *)
(* prompt on the final turn (_handle_ending, which completes the session  *)
(* in memory), the game-master prompt otherwise (_handle_normal_turn).    *)
Narrate(r) ==
    /\ pc[r] = "narrate"
    /\ narrated' = [narrated EXCEPT ![r] = @ + 1]
    /\ IF is_final_turn(sess[r])
       THEN \E e \in EndingTypes :
              /\ UNCHANGED delta
              /\ sess' = [sess EXCEPT ![r] = complete(@, e)]
              /\ pc' = [pc EXCEPT ![r] = "ai_msg"]
       ELSE \E p \in BOOLEAN, h \in HpChanges :
              /\ p \/ h = 0
              /\ delta' = [delta EXCEPT ![r] = h]
              /\ pc' = [pc EXCEPT ![r] = IF p /\ h # 0 THEN "fold" ELSE "ai_msg"]
              /\ UNCHANGED sess
    /\ UNCHANGED domainVars
    /\ UNCHANGED <<tok, usr, lockVars, txn, resp, outcome, cached, loaded,
                   cache, cacheWriter, db>>

(* _handle_normal_turn: load the character, heal or take_damage, and      *)
(* character_repo.save (UPDATE, flushed in the request's transaction).    *)
FoldCharacter(r) ==
    /\ pc[r] = "fold"
    /\ LET cur == IF txn[r].char # NoChar THEN txn[r].char ELSE db.hp
           new == IF delta[r] > 0 THEN heal(cur, delta[r])
                  ELSE take_damage(cur, 0 - delta[r])
       IN txn' = [txn EXCEPT ![r].char = new]
    /\ delta' = [delta EXCEPT ![r] = 0]
    /\ pc' = [pc EXCEPT ![r] = "ai_msg"]
    /\ UNCHANGED domainVars
    /\ UNCHANGED <<tok, usr, lockVars, sess, resp, outcome, cached,
                   narrated, loaded, cache, cacheWriter, db>>

(* The response built at the end of _handle_normal_turn / _handle_ending. *)
build_response(r) ==
    IF sess[r].status = "completed"
    THEN [kind |-> "ending", total_turns |-> sess[r].turn,
          ending_type |-> sess[r].ending]
    ELSE [kind |-> "action", msg |-> r, turn_count |-> sess[r].turn,
          is_ending |-> (remaining_turns(sess[r]) <= 1)]

(* message_repo.create(ai_message / ending_message), then the response.   *)
(* _cache_response moved ahead of session_repo.save: the idempotency     *)
(* record is written while the session's row is still unsaved.            *)
CreateAiMessage_CachesFirst(r) ==
    /\ pc[r] = "ai_msg"
    /\ txn' = [txn EXCEPT ![r].msgs = @ \cup {AiMsg(r)}]
    /\ resp' = [resp EXCEPT ![r] = build_response(r)]
    /\ cache' = [cache EXCEPT ![Key(r)] = cache_response(build_response(r))]
    /\ cacheWriter' = [cacheWriter EXCEPT ![Key(r)] = r]
    /\ pc' = [pc EXCEPT ![r] = "save"]
    /\ UNCHANGED domainVars
    /\ UNCHANGED <<tok, usr, lockVars, sess, delta, outcome, cached, narrated,
                   loaded, db>>

CreateAiMessage(r) ==
    /\ pc[r] = "ai_msg"
    /\ txn' = [txn EXCEPT ![r].msgs = @ \cup {AiMsg(r)}]
    /\ resp' = [resp EXCEPT ![r] = build_response(r)]
    /\ pc' = [pc EXCEPT ![r] = "save"]
    /\ UNCHANGED domainVars
    /\ UNCHANGED <<tok, usr, lockVars, sess, delta, outcome, cached, narrated,
                   loaded, cache, cacheWriter, db>>

(* 9. session_repo.save(session): UPDATE of every mapped column, flushed  *)
(* in the request's transaction.                                          *)
SaveSession(r) ==
    /\ pc[r] = "save"
    /\ txn' = [txn EXCEPT ![r].sess = sess[r]]
    /\ sess' = [sess EXCEPT ![r] = NoSess]
    /\ pc' = [pc EXCEPT ![r] = "cache"]
    /\ UNCHANGED domainVars
    /\ UNCHANGED <<tok, usr, lockVars, delta, resp, outcome, cached,
                   narrated, loaded, cache, cacheWriter, db>>

(* 10. _cache_response: cache.set(cache_key, json, ttl_seconds=600).      *)
CacheResponse(r) ==
    /\ pc[r] = "cache"
    /\ cache' = [cache EXCEPT ![Key(r)] = cache_response(resp[r])]
    /\ cacheWriter' = [cacheWriter EXCEPT ![Key(r)] = r]
    /\ outcome' = [outcome EXCEPT ![r] = "ok"]
    /\ pc' = [pc EXCEPT ![r] = "exit"]
    /\ UNCHANGED domainVars
    /\ UNCHANGED <<tok, usr, lockVars, sess, txn, delta, resp, cached, narrated,
                   loaded, db>>

(* The awaited call of the current step raises (Redis, the database, the  *)
(* embedder or the narrative generator fails) or the request is cancelled *)
(* there: the exception leaves execute and the lock's finally runs. Past  *)
(* the last step it is the cancellation delivered while cache.set awaits  *)
(* its reply or while the lock's finally awaits: the response is lost and *)
(* the exception reaches the route's caller.                              *)
Fail(r) ==
    /\ pc[r] \in Section \/ (pc[r] = "exit" /\ outcome[r] = "ok")
    /\ outcome' = [outcome EXCEPT ![r] = "error"]
    /\ sess' = [sess EXCEPT ![r] = NoSess]
    /\ delta' = [delta EXCEPT ![r] = 0]
    /\ resp' = [resp EXCEPT ![r] = NoResp]
    /\ pc' = [pc EXCEPT ![r] = "exit"]
    /\ UNCHANGED domainVars
    /\ UNCHANGED <<tok, usr, lockVars, txn, cached, narrated, loaded, cache,
                   cacheWriter, db>>

(* ------------------ request transaction (write_db) -------------------- *)
(* The route returned: the session dependency commits what the request    *)
(* flushed.                                                               *)
Commit(r) ==
    /\ pc[r] = "teardown"
    /\ outcome[r] = "ok"
    /\ db' = [sess |-> IF txn[r].sess # NoSess THEN txn[r].sess ELSE db.sess,
              hp |-> IF txn[r].char # NoChar THEN txn[r].char ELSE db.hp,
              msgs |-> db.msgs \cup txn[r].msgs,
              sessBy |-> IF txn[r].sess # NoSess THEN r ELSE db.sessBy,
              hpBy |-> IF txn[r].char # NoChar THEN r ELSE db.hpBy]
    /\ txn' = [txn EXCEPT ![r] = EmptyTxn]
    /\ pc' = [pc EXCEPT ![r] = "done"]
    /\ UNCHANGED domainVars
    /\ UNCHANGED <<tok, usr, lockVars, sess, delta, resp, outcome, cached,
                   narrated, loaded, cache, cacheWriter>>

(* The route raised: the session dependency rolls the transaction back.   *)
Rollback(r) ==
    /\ pc[r] = "teardown"
    /\ outcome[r] # "ok"
    /\ txn' = [txn EXCEPT ![r] = EmptyTxn]
    /\ pc' = [pc EXCEPT ![r] = "done"]
    /\ UNCHANGED domainVars
    /\ UNCHANGED <<tok, usr, lockVars, sess, delta, resp, outcome, cached,
                   narrated, loaded, cache, cacheWriter, db>>

(* ----------------- GameSessionEntity, method by method ----------------- *)
(* The entity a caller holds in memory is sess[r]; outcome[r] is "ok" or   *)
(* the ValueError of the last method called on it.                        *)
entityOther == <<pc, tok, usr, lockVars, txn, delta, resp, cached, narrated,
                 loaded, cache, cacheWriter, db, domainVars>>

(* StartGameUseCase, step 5: a new ACTIVE session at turn_count 0.        *)
CreateSession(r) ==
    /\ sess[r] = NoSess
    /\ \E mx \in 1..MaxTurns :
         sess' = [sess EXCEPT ![r] = [status |-> "active", turn |-> 0,
                                      max |-> mx, ending |-> "none",
                                      loc |-> StartLocation]]
    /\ outcome' = [outcome EXCEPT ![r] = "ok"]
    /\ UNCHANGED entityOther

(* advance_turn(): raises on a session that is not ACTIVE; max_turns is   *)
(* not looked at. The count is capped one past MaxTurns.                  *)
AdvanceTurn(r) ==
    /\ sess[r] # NoSess
    /\ sess[r].turn <= MaxTurns
    /\ IF is_active(sess[r])
       THEN /\ sess' = [sess EXCEPT ![r] = advance_turn(@)]
            /\ outcome' = [outcome EXCEPT ![r] = "ok"]
       ELSE /\ outcome' = [outcome EXCEPT ![r] = "cannot_advance"]
            /\ UNCHANGED sess
    /\ UNCHANGED entityOther

(* complete(ending): no condition on the current status.                  *)
Complete(r) ==
    /\ sess[r] # NoSess
    /\ \E e \in EndingTypes : sess' = [sess EXCEPT ![r] = complete(@, e)]
    /\ outcome' = [outcome EXCEPT ![r] = "ok"]
    /\ UNCHANGED entityOther

(* pause() without its is_active condition. *)
Pause_Unguarded(r) ==
    /\ sess[r] # NoSess
    /\ sess' = [sess EXCEPT ![r].status = "paused"]
    /\ outcome' = [outcome EXCEPT ![r] = "ok"]
    /\ UNCHANGED entityOther

(* pause(): ACTIVE -> PAUSED, raises otherwise.                           *)
Pause(r) ==
    /\ sess[r] # NoSess
    /\ IF is_active(sess[r])
       THEN /\ sess' = [sess EXCEPT ![r].status = "paused"]
            /\ outcome' = [outcome EXCEPT ![r] = "ok"]
       ELSE /\ outcome' = [outcome EXCEPT ![r] = "cannot_pause"]
            /\ UNCHANGED sess
    /\ UNCHANGED entityOther

(* resume() without its PAUSED condition. *)
Resume_Unguarded(r) ==
    /\ sess[r] # NoSess
    /\ sess' = [sess EXCEPT ![r].status = "active"]
    /\ outcome' = [outcome EXCEPT ![r] = "ok"]
    /\ UNCHANGED entityOther

(* resume(): PAUSED -> ACTIVE, raises otherwise.                          *)
Resume(r) ==
    /\ sess[r] # NoSess
    /\ IF sess[r].status = "paused"
       THEN /\ sess' = [sess EXCEPT ![r].status = "active"]
            /\ outcome' = [outcome EXCEPT ![r] = "ok"]
       ELSE /\ outcome' = [outcome EXCEPT ![r] = "cannot_resume"]
            /\ UNCHANGED sess
    /\ UNCHANGED entityOther

(* update_location(new_location) called on the entity: returns the copy   *)
(* with the new location whatever the status is, and never raises.        *)
UpdateLocation(r) ==
    /\ sess[r] # NoSess
    /\ \E l \in Locations : sess' = [sess EXCEPT ![r] = update_location(@, l)]
    /\ outcome' = [outcome EXCEPT ![r] = "ok"]
    /\ UNCHANGED entityOther

(* What execute does to the entity for one submission: _validate_session, *)
(* advance_turn, then complete when should_end_game says so, or else the  *)
(* location that the narrated state changes name (possibly the same one). *)
PlayTurn(r) ==
    /\ sess[r] # NoSess
    /\ LET v == validate_session(sess[r], usr[r]) IN
       IF v # "ok"
       THEN /\ outcome' = [outcome EXCEPT ![r] = v]
            /\ UNCHANGED sess
       ELSE /\ outcome' = [outcome EXCEPT ![r] = "ok"]
            /\ LET s1 == advance_turn(sess[r]) IN
               IF is_final_turn(s1)
               THEN \E e \in EndingTypes : sess' = [sess EXCEPT ![r] = complete(s1, e)]
               ELSE \E l \in Locations :
                        sess' = [sess EXCEPT ![r] = update_location(s1, l)]
    /\ UNCHANGED entityOther


(* ------------------- character and account calls ---------------------- *)
TakeDamage ==
    /\ \E a \in HpAmounts :
         /\ stats' = stats_take_damage(stats, a)
         /\ op' = [name |-> "take_damage", amount |-> a]
    /\ UNCHANGED <<account, engineVars, serviceVars>>

Heal ==
    /\ \E a \in HpAmounts :
         /\ stats' = stats_heal(stats, a)
         /\ op' = [name |-> "heal", amount |-> a]
    /\ UNCHANGED <<account, engineVars, serviceVars>>

(* The total is capped at MaxExperience. *)
GainExperience ==
    /\ \E a \in ExpAmounts :
         /\ stats.experience + a <= MaxExperience
         /\ stats' = gain_experience(stats, a)
         /\ op' = [name |-> "gain_experience", amount |-> a]
    /\ UNCHANGED <<account, engineVars, serviceVars>>

(* One narrated turn folded into the character. *)
FoldTurn ==
    /\ \E hc \in FoldHpChanges, xp \in FoldExpAmounts :
         /\ stats.experience + xp <= MaxExperience
         /\ stats' = fold_character(stats, hc, xp)
         /\ op' = [name |-> "fold", amount |-> hc]
    /\ UNCHANGED <<account, engineVars, serviceVars>>

(* award_game_experience: the total is capped at MaxGameExperience. *)
GainGameExperience ==
    /\ \E a \in GameExpAmounts :
         /\ account.game_experience + a <= MaxGameExperience
         /\ account' = gain_game_experience(account, a)
         /\ op' = [name |-> "gain_game_experience", amount |-> a]
    /\ UNCHANGED <<stats, engineVars, serviceVars>>

(* -------------------------- service calls ----------------------------- *)
(* Step 7.3 of execute: the two context lists are merged, once.           *)
MergeContexts ==
    /\ op = NoOp
    /\ merged' = merge_contexts(recent, rag)
    /\ op' = [name |-> "merge_contexts", amount |-> 0]
    /\ UNCHANGED <<stats, account, engineVars, recent, rag, gameState, changes,
                   dice, auxVars>>

(* One narration's state changes applied to the session's game state.     *)
ApplyStateChanges ==
    /\ op = NoOp
    /\ gameState' = apply_state_changes(gameState, changes)
    /\ op' = [name |-> "apply_state_changes", amount |-> 0]
    /\ UNCHANGED <<stats, account, engineVars, recent, rag, merged, changes,
                   dice, auxVars>>

(* perform_check(level, difficulty, check_type), once: the d20 roll and,  *)
(* on a 20 or a 1, the damage roll are the random choices.                *)
PerformCheck ==
    /\ op = NoOp
    /\ \E level \in 1..MaxLevel, difficulty \in Difficulties,
          check_type \in CheckTypes, roll \in 1..20 :
         \E damage \in (IF roll = 20 THEN roll_damage(level, TRUE)
                        ELSE IF roll = 1 THEN roll_fumble_damage
                        ELSE {NoDamage}) :
            dice' = [level |-> level, difficulty |-> difficulty,
                     result |-> DiceResult(roll, calculate_modifier(level),
                                           get_dc(difficulty), check_type,
                                           damage)]
    /\ op' = [name |-> "perform_check", amount |-> 0]
    /\ UNCHANGED <<stats, account, engineVars, recent, rag, merged, gameState,
                   changes, auxVars>>

(* A finished game of turn_count turns is scored for each ending type it  *)
(* could have had.                                                        *)
CalculateGameXp ==
    /\ op = NoOp
    /\ \E turn_count \in 0..MaxTurnCount, difficulty \in Difficulties :
         op' = [name |-> "calculate_game_xp", amount |-> 0,
                turn_count |-> turn_count, difficulty |-> difficulty,
                xp |-> [e \in EndingTypes |->
                          calculate_game_xp(e, turn_count, difficulty)]]
    /\ UNCHANGED <<stats, account, engineVars, serviceVars>>

(* ----------------------- generate_embedding --------------------------- *)
embOther == <<stats, account, op, engineVars, recent, rag, merged, gameState,
              changes, dice, start, illus>>

(* Steps 1 and 2: a blank text raises ValueError before anything else.    *)
EmbCall ==
    /\ embPc = "idle"
    /\ \E text \in Texts :
         /\ embText' = text
         /\ embPc' = IF is_blank(text) THEN "raised" ELSE "lookup"
    /\ UNCHANGED <<embCache, embLookup, embCalls, embStore, embVal, embOther>>

(* _get_from_cache: cache.get answers; a stored value is a hit and is     *)
(* returned at once, nothing stored is a miss.                            *)
EmbLookup ==
    /\ embPc = "lookup"
    /\ IF embCache[embText] # NoEntry
       THEN /\ embLookup' = "hit"
            /\ embVal' = json_loads(embCache[embText])
            /\ embPc' = "returned"
       ELSE /\ embLookup' = "miss"
            /\ embPc' = "embed"
            /\ UNCHANGED embVal
    /\ UNCHANGED <<embCache, embText, embCalls, embStore, embOther>>

(* _get_from_cache: cache.get raises; logged, read as a miss.             *)
EmbLookupFails ==
    /\ embPc = "lookup"
    /\ embLookup' = "failed"
    /\ embPc' = "embed"
    /\ UNCHANGED <<embCache, embText, embCalls, embStore, embVal, embOther>>

(* Step 4: the embedder is invoked and answers.                           *)
EmbGenerate ==
    /\ embPc = "embed"
    /\ embCalls' = embCalls + 1
    /\ embVal' = Embedding(embText)
    /\ embPc' = "store"
    /\ UNCHANGED <<embCache, embText, embLookup, embStore, embOther>>

(* Step 4: the embedder is invoked and raises; the call raises.           *)
EmbGenerateFails ==
    /\ embPc = "embed"
    /\ embCalls' = embCalls + 1
    /\ embPc' = "raised"
    /\ UNCHANGED <<embCache, embText, embLookup, embStore, embVal, embOther>>

(* _store_in_cache: cache.set succeeds; the embedding is returned.        *)
EmbStore ==
    /\ embPc = "store"
    /\ embCache' = [embCache EXCEPT ![embText] = json_dumps(embVal)]
    /\ embStore' = "ok"
    /\ embPc' = "returned"
    /\ UNCHANGED <<embText, embLookup, embCalls, embVal, embOther>>

(* _store_in_cache without its try/except. *)
EmbStoreFails_Raises ==
    /\ embPc = "store"
    /\ embStore' = "failed"
    /\ embVal' = NoEmbedding
    /\ embPc' = "raised"
    /\ UNCHANGED <<embCache, embText, embLookup, embCalls, embOther>>

(* _store_in_cache: cache.set raises; logged, the embedding is returned.  *)
EmbStoreFails ==
    /\ embPc = "store"
    /\ embStore' = "failed"
    /\ embPc' = "returned"
    /\ UNCHANGED <<embCache, embText, embLookup, embCalls, embVal, embOther>>

(* The caller has its answer; the next call starts from scratch.          *)
EmbReturn ==
    /\ embPc \in {"returned", "raised"}
    /\ embPc' = "idle" /\ embText' = "" /\ embLookup' = "none"
    /\ embCalls' = 0 /\ embStore' = "none" /\ embVal' = NoEmbedding
    /\ UNCHANGED <<embCache, embOther>>

(* The 24-hour TTL of an entry runs out between two calls.                *)
EmbExpire ==
    /\ embPc = "idle"
    /\ \E text \in Texts :
         /\ embCache[text] # NoEntry
         /\ embCache' = [embCache EXCEPT ![text] = NoEntry]
    /\ UNCHANGED <<embPc, embText, embLookup, embCalls, embStore, embVal,
                   embOther>>

(* ------------------------ StartGameUseCase ---------------------------- *)
startOther == <<stats, account, op, engineVars, recent, rag, merged,
                gameState, changes, dice, embVars, illus>>

(* Steps 1 and 2: the character must be the caller's and of the playable  *)
(* scenario named in the request; otherwise ValueError.                   *)
StartValidate(c) ==
    /\ start.pc[c] = "idle"
    /\ \E valid \in BOOLEAN :
         start' = [start EXCEPT
                     !.pc[c] = IF valid THEN "validated" ELSE "rejected"]
    /\ UNCHANGED startOther

(* The rows get_active_by_character selects in c's transaction: the       *)
(* committed ACTIVE sessions of the character and those c flushed itself. *)
get_active_by_character(c) == start.active \cup (start.flushed \cap {c})

(* Step 3: ValueError when the select finds a row (and the driver's       *)
(* MultipleResultsFound when it finds several).                           *)
StartCheckExisting(c) ==
    /\ start.pc[c] = "validated"
    /\ start' = [start EXCEPT
                   !.pc[c] = IF get_active_by_character(c) # {}
                             THEN "rejected" ELSE "checked"]
    /\ UNCHANGED startOther

(* Steps 4 to 6: a new ACTIVE session at turn_count 0 is added and        *)
(* flushed in the request's transaction.                                  *)
StartSaveSession(c) ==
    /\ start.pc[c] = "checked"
    /\ start' = [start EXCEPT !.pc[c] = "saved", !.flushed = @ \cup {c}]
    /\ UNCHANGED startOther

(* Step 7: the narrative generator writes the opening, or raises.         *)
StartNarrate(c) ==
    /\ start.pc[c] = "saved"
    /\ \E ok \in BOOLEAN :
         start' = [start EXCEPT
                     !.pc[c] = IF ok THEN "narrated" ELSE "failed"]
    /\ UNCHANGED startOther

(* Step 8 and the end of the request: the response is returned and the    *)
(* transaction commits, which makes the session visible to everyone.      *)
StartCommit(c) ==
    /\ start.pc[c] = "narrated"
    /\ start' = [start EXCEPT !.pc[c] = "created",
                              !.flushed = @ \ {c},
                              !.active = @ \cup {c}]
    /\ UNCHANGED startOther

(* The exception leaves execute: the transaction rolls back.              *)
StartRollback(c) ==
    /\ start.pc[c] \in {"rejected", "failed"}
    /\ start' = [start EXCEPT !.pc[c] = "refused", !.flushed = @ \ {c}]
    /\ UNCHANGED startOther

(* The turn engine completes a session of the character: it is ACTIVE no  *)
(* longer.                                                                *)
StartedSessionCompletes(c) ==
    /\ c \in start.active
    /\ start' = [start EXCEPT !.active = @ \ {c}]
    /\ UNCHANGED startOther

(* -------------------- GenerateIllustrationUseCase --------------------- *)
illusOther == <<stats, account, op, engineVars, recent, rag, merged,
                gameState, changes, dice, embVars, start>>

Raised(error) == [status |-> error]

GenerateIllustrationResult(m, url) ==
    [status |-> "ok", message_id |-> m, image_url |-> url]

(* execute up to the image service's call: the feature switch, the        *)
(* session by id and its owner, the message by id and its role, and the   *)
(* image the message already has.                                         *)
illustration_checks(enabled, user, sid, m) ==
    IF ~enabled THEN Raised("BadRequest")
    ELSE IF sid \notin SessionIds THEN Raised("NotFound")
    ELSE IF session_user(sid) # user THEN Raised("Forbidden")
    ELSE IF m \notin Messages THEN Raised("NotFound")
    ELSE IF ~is_ai_response(m) THEN Raised("BadRequest")
    ELSE IF illus.image_url[m] # NoUrl
         THEN GenerateIllustrationResult(m, illus.image_url[m])
    ELSE NoResult

IllustrationCall ==
    /\ illus.pc = "idle"
    /\ \E enabled \in BOOLEAN, user \in Users,
          sid \in SessionIds \cup {NoId}, m \in Messages \cup {NoId} :
         LET res == illustration_checks(enabled, user, sid, m) IN
         illus' = [illus EXCEPT
                     !.user = user, !.session_id = sid, !.message_id = m,
                     !.result = res,
                     !.pc = IF res = NoResult THEN "generating"
                            ELSE "returned"]
    /\ UNCHANGED illusOther

(* generate_image answers None (ServerError) or a URL, which              *)
(* update_image_url stores on the message found by its id.                *)
IllustrationGenerate ==
    /\ illus.pc = "generating"
    /\ \E url \in Urls \cup {NoUrl} :
         illus' = IF url = NoUrl
                  THEN [illus EXCEPT !.result = Raised("ServerError"),
                                     !.pc = "returned"]
                  ELSE [illus EXCEPT
                          !.image_url[illus.message_id] = url,
                          !.result = GenerateIllustrationResult(
                                         illus.message_id, url),
                          !.pc = "returned"]
    /\ UNCHANGED illusOther

(* The caller has its answer; the next request may come.                  *)
IllustrationReturn ==
    /\ illus.pc = "returned"
    /\ illus' = [illus EXCEPT !.pc = "idle", !.result = NoResult]
    /\ UNCHANGED illusOther

(* ------------------------------- claims -------------------------------- *)
Returned(r) == pc[r] = "done" /\ outcome[r] = "ok"

Processed(r) == Returned(r) /\ ~cached[r]

PersistedBy(r) == {m \in db.msgs : m.by = r}

(* acquire() returned True and release has not run yet. *)
LeaseLost(r) == hasToken[r] /\ lockOwner[Key(r)] # r

(* C1: two submissions of the same (session, token) that both return get  *)
(* the same response, and the narrative generator ran for at most one of  *)
(* them.                                                                  *)
C1_IdempotentReplay ==
    \A r1, r2 \in Reqs :
        (r1 # r2 /\ Returned(r1) /\ Returned(r2) /\ tok[r1] = tok[r2])
        => /\ resp[r1] = resp[r2]
           /\ ~(narrated[r1] > 0 /\ narrated[r2] > 0)

(* C2: the persisted turn_count is the number of submissions processed    *)
(* so far (the session starts at turn_count 0): no processed turn is lost *)
(* or overwritten by another.                                             *)
C2_TurnsSerialized ==
    db.sess.turn = Cardinality({r \in Reqs : Processed(r)})

(* C3: two callers of the same key are inside the guarded block together  *)
(* only when the lease of one of them has expired.                        *)
C3_MutualExclusion ==
    \A r1, r2 \in Reqs :
        (r1 # r2 /\ InSection(r1) /\ InSection(r2) /\ Key(r1) = Key(r2))
        => (LeaseLost(r1) \/ LeaseLost(r2))

(* C4: a caller whose acquire did not obtain the key within the blocking  *)
(* timeout never executes the guarded block.                              *)
C4_TimeoutNeverEnters ==
    \A r \in Reqs : InSection(r) => hasToken[r]

(* C5: while a holder is inside the guarded block and its heartbeat is    *)
(* running, the key stays its own, however long the block runs: no        *)
(* competing acquire can obtain it.                                       *)
C5_HeartbeatKeepsLease ==
    \A r \in Reqs :
        (InSection(r) /\ hasToken[r] /\ hb[r] = "running")
        => (lockOwner[Key(r)] = r /\ lockTtl[Key(r)] > 0)

(* A holder past the initial TTL, a competitor waiting on the same key.   *)
C5_Witness ==
    \E r, w \in Reqs :
        /\ InSection(r) /\ hasToken[r] /\ hb[r] = "running"
        /\ extends[r] * ExtendIntervalTicks + hbClk[r] > TtlTicks
        /\ pc[w] = "acquire" /\ Key(w) = Key(r)

(* C6: an idempotency record exists only for a submission whose turn was  *)
(* narrated and whose session save went through, and it is persisted once *)
(* that request is done; a failed submission leaves no record of its own  *)
(* and no persisted session.                                              *)
C6_FailedTurnKeepsSlot ==
    /\ \A k \in Tokens :
         cache[k] # NoRecord =>
           LET w == cacheWriter[k] IN
           /\ w # NoReq /\ tok[w] = k
           /\ outcome[w] = "ok" /\ ~cached[w] /\ narrated[w] = 1
           /\ IF pc[w] = "done"
              THEN {UserMsg(w), AiMsg(w)} \subseteq db.msgs
              ELSE txn[w].sess # NoSess /\ {UserMsg(w), AiMsg(w)} \subseteq txn[w].msgs
    /\ \A r \in Reqs :
         outcome[r] = "error" => (cacheWriter[Key(r)] # r /\ db.sessBy # r)

(* C7: a submission that failed or was cancelled leaves none of its       *)
(* writes in the store, and the writes of a submission are in the store   *)
(* all together or not at all.                                            *)
C7_AllOrNothing ==
    \A r \in Reqs :
        /\ outcome[r] # "ok" => (PersistedBy(r) = {} /\ db.sessBy # r /\ db.hpBy # r)
        /\ (PersistedBy(r) # {} \/ db.sessBy = r \/ db.hpBy = r)
           => (Processed(r) /\ PersistedBy(r) = {UserMsg(r), AiMsg(r)})

(* The narrative generator ran, the submission failed later and is over.  *)
C7_Witness ==
    \E r \in Reqs :
        /\ pc[r] = "done" /\ outcome[r] = "error" /\ narrated[r] = 1
        /\ PersistedBy(r) = {}

(* C8: a submission that finds no idempotency record and loads a session  *)
(* that is not ACTIVE is rejected by validation; it appends no message,   *)
(* never calls the narrative generator and saves nothing.                 *)
C8_InactiveRejected ==
    \A r \in Reqs :
        loaded[r] \in {"paused", "completed"}
        => /\ outcome[r] \in {"already_completed", "not_active"}
           /\ pc[r] \in {"exit", "release", "teardown", "done"}
           /\ narrated[r] = 0
           /\ txn[r] = EmptyTxn
           /\ PersistedBy(r) = {} /\ db.sessBy # r /\ db.hpBy # r

(* A submission was rejected on a session an earlier turn completed.      *)
C8_Witness ==
    \E r \in Reqs :
        /\ loaded[r] = "completed" /\ pc[r] = "done"
        /\ outcome[r] = "already_completed"
        /\ db.sess.status = "completed"

(* C9: a submission by a user who does not own the session advances no    *)
(* turn, appends no message, calls no narrative generator and persists    *)
(* nothing.                                                               *)
C9_NonOwnerRejected ==
    \A r \in Reqs :
        (pc[r] # "idle" /\ usr[r] # Owner)
        => /\ sess[r] = NoSess
           /\ narrated[r] = 0
           /\ txn[r] = EmptyTxn
           /\ PersistedBy(r) = {} /\ db.sessBy # r /\ db.hpBy # r

(* C11: whichever way the guarded block ends (return, exception,          *)
(* cancellation), the cleanup follows: the heartbeat is cancelled, then   *)
(* the release is attempted, once, and only there; the error the block    *)
(* ended with is the one the caller gets.                                 *)
C11_CleanupOnEveryExit ==
    [][\A r \in Reqs :
         /\ (pc[r] \in Section /\ pc'[r] \notin Section) => pc'[r] = "exit"
         /\ (pc[r] = "exit" /\ pc'[r] # "exit")
            => (pc'[r] = "release" /\ hb'[r] = "none" /\ hasToken'[r] = hasToken[r])
         /\ (pc[r] = "release" /\ pc'[r] # "release")
            => /\ pc'[r] = "teardown" /\ hb[r] = "none"
               /\ ~hasToken'[r]
               /\ (hasToken[r] /\ lockOwner[Key(r)] = r) => lockOwner'[Key(r)] = NoReq
         /\ (hasToken[r] /\ ~hasToken'[r]) => pc[r] = "release"
         /\ pc[r] = "teardown" => pc'[r] \in {"teardown", "done"}
         /\ (pc[r] \in {"exit", "release", "teardown"} /\ outcome[r] # "ok")
            => outcome'[r] = outcome[r]]_vars

(* A block that ended with an error: the heartbeat is gone, the key is    *)
(* released, the error is still the request's outcome.                    *)
C11_Witness ==
    \E r \in Reqs :
        /\ pc[r] = "teardown" /\ outcome[r] = "error" /\ narrated[r] = 1
        /\ hb[r] = "none" /\ ~hasToken[r] /\ lockOwner[Key(r)] = NoReq

(* C12: a lease is extended only before the finally clause of its        *)
(* holder's guarded block has started (pc "exit": the block's last step   *)
(* is over, the finally clause is next), and no heartbeat exists once the *)
(* cleanup has cancelled it.                                              *)
C12_NoRenewalAfterExit ==
    [][\A r \in Reqs :
         /\ (\/ extends'[r] > extends[r]
             \/ /\ lockOwner[Key(r)] = r /\ lockOwner'[Key(r)] = r
                /\ lockTtl'[Key(r)] > lockTtl[Key(r)])
            => (pc[r] \in Section \cup {"exit"} /\ pc'[r] = pc[r])
         /\ pc'[r] \notin (Section \cup {"exit"}) => hb'[r] = "none"]_vars

(* The block has ended with an extended lease still held: the heartbeat   *)
(* is cancelled, the release is next.                                     *)
C12_Witness ==
    \E r \in Reqs :
        /\ pc[r] = "release" /\ hb[r] = "none"
        /\ hasToken[r] /\ lockOwner[Key(r)] = r
        /\ lockTtl[Key(r)] > TtlTicks

(* C13: a failed renewal ends the heartbeat for good and changes nothing  *)
(* of the request in the guarded block; the cleanup, with its release, is *)
(* still ahead.                                                           *)
C13_RenewalFailureIsQuiet ==
    [][\A r \in Reqs :
         /\ (hb[r] = "running" /\ hb'[r] = "stopped")
            => /\ pc'[r] = pc[r] /\ outcome'[r] = outcome[r]
               /\ sess'[r] = sess[r] /\ txn'[r] = txn[r] /\ resp'[r] = resp[r]
         /\ hb[r] = "stopped"
            => /\ hb'[r] \in {"stopped", "none"}
               /\ pc[r] \in Section \cup {"exit"}
               /\ hb'[r] = "none" => pc'[r] = "release"]_vars

(* The heartbeat stopped and the block went on to its successful end.     *)
C13_Witness ==
    \E r \in Reqs :
        /\ hb[r] = "stopped" /\ pc[r] = "exit"
        /\ outcome[r] = "ok" /\ ~cached[r] /\ narrated[r] = 1

(* C14: the release step, failing or not, leaves the request's result as  *)
(* it was and goes on to the return of the route.                         *)
C14_ReleaseFailureSuppressed ==
    [][\A r \in Reqs :
         (pc[r] = "release" /\ pc'[r] # "release")
         => /\ pc'[r] = "teardown"
            /\ outcome'[r] = outcome[r] /\ resp'[r] = resp[r]
            /\ txn'[r] = txn[r]]_vars

(* A processed submission is through its release while another request   *)
(* that entered before its cache write holds the key: its release found   *)
(* the key not its own.                                                   *)
C14_Witness ==
    \E r, w \in Reqs :
        /\ r # w /\ tok[r] = tok[w]
        /\ pc[r] = "teardown" /\ outcome[r] = "ok" /\ ~cached[r]
        /\ hasToken[w] /\ lockOwner[Key(w)] = w
        /\ pc[w] \in Section \ {"idem"} /\ ~cached[w]

C16_CacheFailOpen ==
    [][\A r \in Reqs :
         pc[r] \in {"idem", "cache"} => outcome'[r] # "error"]_vars

(* The result of a turn on session s is an ending exactly when the        *)
(* incremented turn_count has reached max_turns.                          *)
Decided(s, rsp) ==
    IF s.turn >= s.max
    THEN /\ rsp.kind = "ending" /\ s.status = "completed"
         /\ s.ending \in EndingTypes
         /\ rsp.ending_type = s.ending /\ rsp.total_turns = s.turn
    ELSE /\ rsp.kind = "action" /\ s.status = "active"
         /\ s.ending = "none" /\ rsp.turn_count = s.turn

(* C17: a processed submission returns an ending and saves the session as *)
(* COMPLETED with the ending type exactly when turn_count after the       *)
(* increment is >= max_turns; otherwise it returns a normal turn and the  *)
(* session it saves is ACTIVE.                                            *)
C17_EndingOnFinalTurn ==
    \A r \in Reqs :
        /\ (pc[r] = "save") => Decided(sess[r], resp[r])
        /\ (txn[r].sess # NoSess /\ resp[r] # NoResp) => Decided(txn[r].sess, resp[r])
        /\ (Processed(r) /\ db.sessBy = r) => Decided(db.sess, resp[r])

(* A normal turn, then the turn that ended the game at max_turns.         *)
C17_Witness ==
    \E r1, r2 \in Reqs :
        /\ Processed(r1) /\ resp[r1].kind = "action"
        /\ Processed(r2) /\ resp[r2].kind = "ending"
        /\ db.sessBy = r2 /\ db.sess.status = "completed"
        /\ db.sess.turn = db.sess.max

(* C18: the store never holds an ACTIVE session with its character at 0   *)
(* HP, and the submission whose fold brought the HP to 0 returned an      *)
(* ending.                                                                *)
C18_DeathEndsGame ==
    /\ db.hp = 0 => db.sess.status # "active"
    /\ \A r \in Reqs :
         (Processed(r) /\ db.hpBy = r /\ db.hp = 0) => resp[r].kind = "ending"

(* ending_type is set exactly on a COMPLETED session. *)
EndingIffCompleted(s) ==
    s = NoSess \/ ((s.ending # "none") <=> (s.status = "completed"))

(* C19: every session entity reached from its creation by the entity's    *)
(* methods and by turns, and every session saved or stored, has its       *)
(* ending_type set if and only if its status is COMPLETED.                *)
C19_EndingTypeIffCompleted ==
    /\ EndingIffCompleted(db.sess)
    /\ \A r \in Reqs : EndingIffCompleted(sess[r]) /\ EndingIffCompleted(txn[r].sess)

(* pause() was refused on a completed session, which keeps its ending.    *)
C19_Witness ==
    \E r \in Reqs :
        /\ sess[r].status = "completed" /\ outcome[r] = "cannot_pause"
        /\ sess[r].ending \in EndingTypes

(* C20: the persisted turn_count, and the one a request has saved in its  *)
(* transaction, never exceeds max_turns; an ACTIVE session is below it.   *)
C20_TurnCountBounded ==
    /\ db.sess.turn <= db.sess.max
    /\ db.sess.status = "completed" => db.sess.turn <= db.sess.max
    /\ db.sess.status = "active" => db.sess.turn < db.sess.max
    /\ \A r \in Reqs :
         txn[r].sess # NoSess => txn[r].sess.turn <= txn[r].sess.max

(* The session was played to its last turn and completed there.           *)
C20_Witness ==
    /\ db.sess.status = "completed"
    /\ db.sess.max = MaxTurns /\ db.sess.turn = MaxTurns

(* Request r writes a session or character mutation in this step, or the *)
(* mutations it wrote become visible to the other requests.               *)
(* C21: COMPLETED is terminal. No entity method (advance_turn, pause,     *)
(* resume, complete, update_location) and no further submission takes a   *)
(* COMPLETED session to any other status.                                 *)
C21_CompletedIsTerminal ==
    [][\A r \in Reqs :
          (sess[r] # NoSess /\ sess[r].status = "completed")
          => sess'[r].status = "completed"]_vars

(* A COMPLETED session on which resume(), pause(), advance_turn() or a    *)
(* submission has just been tried and refused.                            *)
C21_Witness ==
    /\ sess[1] # NoSess
    /\ sess[1].status = "completed"
    /\ outcome[1] \in {"cannot_resume", "cannot_pause", "cannot_advance",
                       "already_completed"}

(* C22: on a session that is not ACTIVE, turn advancement and location    *)
(* update are refused and change nothing: its turn_count and its          *)
(* current_location stay what they were.                                  *)
C22_InactiveRejectsUpdates ==
    [][\A r \in Reqs :
          (sess[r] # NoSess /\ ~is_active(sess[r]))
          => /\ sess'[r].turn = sess[r].turn
             /\ sess'[r].loc = sess[r].loc]_vars

Mutates(r) ==
    \/ /\ pc[r] \in Section
       /\ txn'[r].sess # txn[r].sess \/ txn'[r].char # txn[r].char
    \/ /\ pc[r] = "teardown" /\ pc'[r] = "done"
       /\ db'.sess # db.sess \/ db'.hp # db.hp

(* C10: a session or character mutation is written, and becomes visible   *)
(* in the store, only between the request's acquisition of the lock and   *)
(* its release.                                                           *)
C10_MutationsUnderLock ==
    [][\A r \in Reqs : Mutates(r) => hasToken[r]]_vars

(* 100*L + 100*(L+1) + ... + 100*(L+n-1): n consecutive thresholds from L. *)
RECURSIVE threshold_sum(_, _)
threshold_sum(L, n) == IF n = 0 THEN 0 ELSE 100 * L + threshold_sum(L + 1, n - 1)

(* 10*from + 10*(from+1) + ... + 10*(to-1). *)
RECURSIVE hp_raise(_, _)
hp_raise(from, to) == IF from >= to THEN 0 ELSE 10 * from + hp_raise(from + 1, to)

GainedExperience == op'.name = "gain_experience"
GainedGameExperience == op'.name = "gain_game_experience"

(* C23: a character at level L with current_experience 0 that gains, in   *)
(* one call, the sum of the N thresholds of levels L .. L+N-1 ends at      *)
(* level L+N with current_experience 0.                                    *)
C23_LumpSumLevels ==
    [][\A n \in 0..MaxCrossed :
          (/\ GainedExperience
           /\ stats.current_experience = 0
           /\ op'.amount = threshold_sum(stats.level, n))
          => /\ stats'.level = stats.level + n
             /\ stats'.current_experience = 0]_vars

(* A level-1 character has gained 600 = 100 + 200 + 300 in its first call. *)
C23_Witness ==
    /\ op = [name |-> "gain_experience", amount |-> 600]
    /\ stats.experience = 600
    /\ stats.level = 4
    /\ stats.current_experience = 0

(* C24: on both tracks the current experience stays strictly below the    *)
(* threshold of the current level (level * 100 for the character, level   *)
(* * 300 for the account), however many thresholds one call crossed.      *)
C24_CurrentBelowThreshold ==
    /\ stats.current_experience < stats.level * 100
    /\ account.game_current_experience < account.game_level * 300

(* One character call that crossed two thresholds and left a remainder.   *)
C24_Witness ==
    /\ op = [name |-> "gain_experience", amount |-> 500]
    /\ stats.experience = 500
    /\ stats.level = 3
    /\ stats.current_experience = 200

(* C25: a gain_experience call that takes the character from level L to   *)
(* level L' raises max_hp by 10 * l for every level l in L .. L'-1 and,    *)
(* when L' > L, leaves hp = max_hp; a call that crosses no threshold       *)
(* leaves level, max_hp and hp as they were. The scenario level 1,         *)
(* experience 90, current 90, gain 50 gives level 2, experience 140,       *)
(* current 40, max_hp 110, hp 110.                                         *)
C25_LevelUpRaisesHp ==
    [][GainedExperience =>
          /\ stats'.max_hp = stats.max_hp + hp_raise(stats.level, stats'.level)
          /\ stats'.level > stats.level => stats'.hp = stats'.max_hp
          /\ (stats.current_experience + op'.amount < stats.level * 100)
             => /\ stats'.level = stats.level
                /\ stats'.max_hp = stats.max_hp
                /\ stats'.hp = stats.hp
          /\ (/\ stats.level = 1 /\ stats.max_hp = 100
              /\ stats.experience = 90 /\ stats.current_experience = 90
              /\ op'.amount = 50)
             => (/\ stats'.level = 2 /\ stats'.experience = 140
                 /\ stats'.current_experience = 40
                 /\ stats'.max_hp = 110 /\ stats'.hp = 110)]_vars

(* A character that started at level 2 (max_hp 110) and has crossed the   *)
(* thresholds of levels 2 and 3 in one call: max_hp 110 + 20 + 30.         *)
C25_Witness ==
    /\ op = [name |-> "gain_experience", amount |-> 500]
    /\ stats.level = 4
    /\ stats.max_hp = 160
    /\ stats.hp = 160

(* C26: whatever take_damage, heal, gain_experience calls (amounts >= 0)  *)
(* and folded turns (any hp_change) have run, 0 <= hp <= max_hp.          *)
C26_HpWithinBounds ==
    /\ 0 <= stats.hp
    /\ stats.hp <= stats.max_hp

(* A fold whose damage exceeded the hp left, on a character that had      *)
(* levelled up before.                                                    *)
C26_Witness ==
    /\ op = [name |-> "fold", amount |-> -200]
    /\ stats.hp = 0
    /\ stats.level > 1
    /\ stats.experience > 0

Ids(msgs) == {msgs[k].id : k \in 1..Len(msgs)}

(* C28: merge_contexts(recent, retrieved) holds every message id of       *)
(* either input exactly once, in non-decreasing order of created_at.      *)
C28_MergeDedupSorted ==
    op.name = "merge_contexts"
    => /\ Ids(merged) = Ids(recent) \cup Ids(rag)
       /\ \A i, j \in 1..Len(merged) : i # j => merged[i].id # merged[j].id
       /\ \A i, j \in 1..Len(merged) :
             i < j => merged[i].created_at <= merged[j].created_at

(* Message 2 is in both inputs and is older than message 1 before it.     *)
C28_Witness ==
    /\ op.name = "merge_contexts"
    /\ recent = <<Msg(1), Msg(2)>>
    /\ rag = <<Msg(2), Msg(3)>>
    /\ merged = <<Msg(2), Msg(1), Msg(3)>>

Count(x, list) == Cardinality({k \in 1..Len(list) : list[k] = x})
Elems(list) == {list[k] : k \in 1..Len(list)}

(* `new` has every entry of `gained` exactly once, and the entries of     *)
(* `old` that are neither gained nor lost in their original order.        *)
GainedOnceRestKept(old, new, gained, lost) ==
    /\ \A g \in gained : Count(g, new) = 1
    /\ SelectSeq(new, LAMBDA x : x \notin gained \cup lost)
         = SelectSeq(old, LAMBDA x : x \notin gained \cup lost)

Applied == op'.name = "apply_state_changes"

GainedLocation == IF truthy(changes.location) THEN {changes.location} ELSE {}

(* The three lists that nothing is removed from.                          *)
OtherListsApplied ==
    LET old == from_dict(gameState) IN
    /\ GainedOnceRestKept(old.visited_locations, gameState'.visited_locations,
                          GainedLocation, {})
    /\ GainedOnceRestKept(old.met_npcs, gameState'.met_npcs,
                          Elems(changes.npcs_met), {})
    /\ GainedOnceRestKept(old.discoveries, gameState'.discoveries,
                          Elems(changes.discoveries), {})

(* C29, as stated: after apply_state_changes every gained item, NPC,      *)
(* discovery and location occurs exactly once, every items_lost entry is  *)
(* absent, and every other entry is kept in its original order.           *)
C29_ApplyAsStated ==
    [][Applied =>
          /\ GainedOnceRestKept(from_dict(gameState).items, gameState'.items,
                                Elems(changes.items_gained),
                                Elems(changes.items_lost))
          /\ \A l \in Elems(changes.items_lost) : Count(l, gameState'.items) = 0
          /\ OtherListsApplied]_vars

(* C29, amended: every items_lost entry is absent, also when the same     *)
(* changes gain it; every gained item that is not lost, and every gained  *)
(* NPC, discovery and location, occurs exactly once; every other entry is *)
(* kept in its original order.                                            *)
C29_ApplyLossWins ==
    [][Applied =>
          /\ GainedOnceRestKept(from_dict(gameState).items, gameState'.items,
                                Elems(changes.items_gained)
                                   \ Elems(changes.items_lost),
                                Elems(changes.items_lost))
          /\ \A l \in Elems(changes.items_lost) : Count(l, gameState'.items) = 0
          /\ OtherListsApplied]_vars

(* The changes gain "key" and "sword" and lose "key"; a place already     *)
(* visited is named again.                                                *)
C29_Witness ==
    /\ op.name = "apply_state_changes"
    /\ changes.items_gained = <<"key", "sword">>
    /\ changes.items_lost = <<"key">>
    /\ changes.location = "cave"
    /\ gameState.items = <<"sword">>
    /\ gameState.visited_locations = <<"tower", "cave">>

(* C30: perform_check returns modifier (level - 1) div 4 + 2, dc 8, 12,   *)
(* 15, 18 for easy, normal, hard, nightmare, total = roll + modifier, and *)
(* is_success exactly when total >= dc. At level 5 against normal, a roll *)
(* of 15 gives total 18, a success, not critical, no damage.              *)
C30_DiceCheck ==
    op.name = "perform_check"
    => LET res == dice.result IN
       /\ res.roll \in 1..20
       /\ res.modifier = (dice.level - 1) \div 4 + 2
       /\ res.dc = (CASE dice.difficulty = "easy" -> 8
                      [] dice.difficulty = "normal" -> 12
                      [] dice.difficulty = "hard" -> 15
                      [] dice.difficulty = "nightmare" -> 18)
       /\ res.total = res.roll + res.modifier
       /\ res.is_success <=> res.total >= res.dc
       /\ (dice.level = 5 /\ dice.difficulty = "normal" /\ res.roll = 15)
          => (/\ res.modifier = 3 /\ res.dc = 12 /\ res.total = 18
              /\ res.is_success /\ ~res.is_critical
              /\ res.damage = NoDamage)

(* A total that equals the dc: level 5 (+3), roll 9, against normal (12). *)
C30_Witness ==
    /\ op.name = "perform_check"
    /\ dice.level = 5
    /\ dice.difficulty = "normal"
    /\ dice.result.roll = 9
    /\ dice.result.total = dice.result.dc
    /\ dice.result.is_success

(* Sides of DamageDice(level): d4 up to level 2, d6 to 4, d8 to 6, d10 to *)
(* 8, d12 above.                                                          *)
DamageSides(level) ==
    CASE level <= 2 -> 4
      [] level > 2 /\ level <= 4 -> 6
      [] level > 4 /\ level <= 6 -> 8
      [] level > 6 /\ level <= 8 -> 10
      [] level > 8 -> 12

(* C31: perform_check attaches damage exactly when the roll is 1 or 20:   *)
(* on a 20 the sum of two dice of DamageDice(level) sides (2 .. 2*sides), *)
(* on a 1 a flat 1d4 (1 .. 4) whatever the level, otherwise none.         *)
C31_DamageOnExtremes ==
    op.name = "perform_check"
    => LET res == dice.result IN
       /\ res.damage # NoDamage <=> res.roll \in {1, 20}
       /\ res.roll = 20 => /\ res.is_critical
                           /\ res.damage \in 2 .. (2 * DamageSides(dice.level))
       /\ res.roll = 1 => res.damage \in 1..4

(* A critical at level 9 with both d12 at their highest. *)
C31_Witness ==
    /\ op.name = "perform_check"
    /\ dice.level = 9
    /\ dice.result.roll = 20
    /\ dice.result.damage = 24

(* C38: a natural 1 is never reported as a success: is_fumble and         *)
(* is_success are never both true in a result of perform_check.           *)
C38_FumbleNeverSucceeds ==
    op.name = "perform_check"
    => ~(dice.result.is_fumble /\ dice.result.is_success)

(* C33: for every turn count and difficulty the account experience of an  *)
(* ending is strictly ordered by its type: victory > neutral > defeat.    *)
C33_XpOrderedByEnding ==
    op.name = "calculate_game_xp"
    => /\ op.xp["victory"] > op.xp["neutral"]
       /\ op.xp["neutral"] > op.xp["defeat"]

(* A game that ended at once, on a difficulty with the 1.5 factor.        *)
C33_Witness ==
    /\ op.name = "calculate_game_xp"
    /\ op.turn_count = 0
    /\ op.difficulty = "hard"
    /\ op.xp = [e \in EndingTypes |->
                  CASE e = "victory" -> 300 [] e = "neutral" -> 150
                    [] e = "defeat" -> 75]

(* C32: a generate_embedding call on a non-blank text that has returned   *)
(* invoked the embedder exactly once if its lookup missed or failed and   *)
(* not at all if it hit, and it returns the text's embedding also when    *)
(* the store failed.                                                      *)
C32_EmbedOncePerMiss ==
    /\ embPc \in {"store", "returned"}
       => /\ embLookup \in {"miss", "failed"} => embCalls = 1
          /\ embLookup = "hit" => embCalls = 0
    /\ embPc = "returned" => embVal = Embedding(embText)
    /\ embStore = "failed" => embPc = "returned"

(* The lookup raised, the embedder ran once, the store raised, and the    *)
(* embedding came back.                                                   *)
C32_Witness ==
    /\ embPc = "returned"
    /\ embLookup = "failed"
    /\ embCalls = 1
    /\ embStore = "failed"
    /\ embVal = Embedding("attack")

(* The position of each step of one submission in lock() and execute():  *)
(* acquire, idempotency check, load with validation and turn advance,     *)
(* user message and context, narrative, fold, AI message, save, cache     *)
(* write, leaving the block, release, end of the request's transaction.   *)
StepOrder ==
    <<"idle", "acquire", "idem", "load", "user_msg", "narrate", "fold",
      "ai_msg", "save", "cache", "exit", "release", "teardown", "done">>

StepRank(p) == CHOOSE i \in 1..Len(StepOrder) : StepOrder[i] = p

StaleHolder(r, r2) ==
    /\ r2 # r
    /\ LeaseLost(r)
    /\ lockOwner[Key(r)] = r2
    /\ hasToken[r2]

(* C36: when a holder whose lease ran out reaches its release while       *)
(* another caller holds the key, the release leaves the key, its owner    *)
(* and its time to live as they are, the failure of the release does not  *)
(* change the outcome of the holder's request, and the new holder still   *)
(* holds the key afterwards.                                              *)
C36_StaleReleaseKeepsNewLease ==
    [][\A r, r2 \in Reqs :
         (StaleHolder(r, r2) /\ pc[r] = "release" /\ pc'[r] # pc[r])
         => /\ lockOwner' = lockOwner
            /\ lockTtl' = lockTtl
            /\ hasToken'[r2]
            /\ ~hasToken'[r]
            /\ outcome'[r] = outcome[r]
            /\ pc'[r] = "teardown"]_vars

(* A holder that lost its lease is at its release call while the caller   *)
(* that acquired the key after it is inside its own block.                *)
C36_Witness ==
    \E r, r2 \in Reqs :
        /\ StaleHolder(r, r2)
        /\ pc[r] = "release"
        /\ pc[r2] \in Section

(* r ran _handle_ending itself (its response is not a replayed one) and  *)
(* its ending message is committed.                                       *)
EndingAppendedBy(r) ==
    /\ ~cached[r]
    /\ resp[r].kind = "ending"
    /\ AiMsg(r) \in db.msgs

(* C35: over all submissions of a session, in any interleaving, the       *)
(* ending sub-flow takes effect at most once: at most one ending message  *)
(* is appended to the session, and the ending type of the stored session, *)
(* once set, never changes.                                               *)
C35_EndingAtMostOnce ==
    /\ [](Cardinality({r \in Reqs : EndingAppendedBy(r)}) <= 1)
    /\ [][db.sess.ending # "none" => db'.sess.ending = db.sess.ending]_vars

(* C37: whatever the interleaving of StartGame calls for one character,  *)
(* the character has at most one ACTIVE session, and a StartGame whose    *)
(* check finds an ACTIVE session of the character is rejected and creates *)
(* no session.                                                            *)
C37_OneActiveSession ==
    /\ [](Cardinality(start.active) <= 1)
    /\ [][\A c \in Starters :
            /\ (start.pc[c] = "validated" /\ start.active # {}
                  /\ start'.pc[c] # start.pc[c])
                 => start'.pc[c] = "rejected"
            /\ start.pc[c] \in {"rejected", "refused"}
                 => /\ start'.pc[c] \in {"rejected", "refused"}
                    /\ c \notin start'.active
                    /\ c \notin start'.flushed]_vars

(* The message is one of the session named in the request, and that      *)
(* session is the requester's.                                            *)
OwnMessageOfNamedSession(user, sid, m) ==
    /\ sid \in SessionIds
    /\ m \in Messages
    /\ message_session(m) = sid
    /\ session_user(sid) = user

(* C39: GenerateIllustration returns an image reference, or attaches one  *)
(* to a message, only when the message belongs to the session named in    *)
(* the request and that session is owned by the requester.                *)
C39_IllustrationOnlyOwnSession ==
    /\ [](illus.result.status = "ok"
           => OwnMessageOfNamedSession(illus.user, illus.session_id,
                                       illus.message_id))
    /\ [][\A m \in Messages :
            illus'.image_url[m] # illus.image_url[m]
            => OwnMessageOfNamedSession(illus.user, illus.session_id, m)]_vars

(* --------------------------- specifications --------------------------- *)
LockNext ==
    \/ \E r \in Reqs :
         \/ Submit(r)
         \/ AcquireOk(r)
         \/ AcquireTimeout(r)
         \/ ExtendOk(r)
         \/ ExtendFail(r)
         \/ BlockEnds(r)
         \/ CancelHeartbeat(r)
         \/ Release(r)
         \/ Return(r)
    \/ Tick

LockSpec == LockInit /\ [][LockNext]_vars

Next ==
    \/ \E r \in Reqs :
         \/ Submit(r)
         \/ AcquireOk(r)
         \/ AcquireGivesUp(r)
         \/ HeartbeatStops(r)
         \/ CancelHeartbeat(r)
         \/ Release(r)
         \/ IdemCheck(r)
         \/ LoadValidate(r)
         \/ CreateUserMessage(r)
         \/ Narrate(r)
         \/ FoldCharacter(r)
         \/ CreateAiMessage(r)
         \/ SaveSession(r)
         \/ CacheResponse(r)
         \/ Fail(r)
         \/ Commit(r)
         \/ Rollback(r)
    \/ \E k \in Tokens : LeaseExpires(k)

Spec == Init /\ [][Next]_vars

(* One entity, held by the first caller. *)
SessionNext ==
    \E r \in {1} :
        \/ CreateSession(r)
        \/ AdvanceTurn(r)
        \/ Complete(r)
        \/ Pause(r)
        \/ Resume(r)
        \/ UpdateLocation(r)
        \/ PlayTurn(r)

SessionSpec == LockInit /\ [][SessionNext]_vars

(* The character and account operations on one player. *)
StatsNext ==
    \/ TakeDamage
    \/ Heal
    \/ GainExperience
    \/ FoldTurn
    \/ GainGameExperience

StatsSpec == StatsInit /\ [][StatsNext]_vars

(* merge_contexts on every pair of context lists. *)
MergeSpec == MergeInit /\ [][MergeContexts]_vars

(* apply_state_changes on every game state and every state changes. *)
GameStateSpec == GameStateInit /\ [][ApplyStateChanges]_vars

(* calculate_game_xp on every turn count and difficulty. *)
AwardSpec == LockInit /\ [][CalculateGameXp]_vars

(* generate_embedding calls, one after the other, on a shared cache. *)
EmbNext ==
    \/ EmbCall
    \/ EmbLookup
    \/ EmbLookupFails
    \/ EmbGenerate
    \/ EmbGenerateFails
    \/ EmbStore
    \/ EmbStoreFails
    \/ EmbReturn
    \/ EmbExpire

EmbSpec == LockInit /\ [][EmbNext]_vars

(* StartGame calls for one character, and its sessions completing.      *)
StartNext ==
    \E c \in Starters :
        \/ StartValidate(c)
        \/ StartCheckExisting(c)
        \/ StartSaveSession(c)
        \/ StartNarrate(c)
        \/ StartCommit(c)
        \/ StartRollback(c)
        \/ StartedSessionCompletes(c)

StartSpec == LockInit /\ [][StartNext]_vars

(* Illustration requests, one after another.                             *)
IllustrationNext ==
    \/ IllustrationCall
    \/ IllustrationGenerate
    \/ IllustrationReturn

IllustrationSpec == LockInit /\ [][IllustrationNext]_vars

(* Dice checks. *)
DiceSpec == LockInit /\ [][PerformCheck]_vars

====
